---------------------------- MODULE Spec2Model ----------------------------
(***************************************************************************)
(* A model of the Clou tree-walking interpreter (frostney/cloulang):       *)
(* the module loader and the built-in require, the re-entry guard of       *)
(* visitCallExpr, environments with const bindings, and classes with       *)
(* this/super.                                                             *)
(*                                                                         *)
(* The interpreter is synchronous and single threaded.  A handler that     *)
(* runs user code in its middle (require runs a module body, a call runs   *)
(* a function body) is split at exactly those points: one action up to     *)
(* the point where user code starts, one action per user statement, one    *)
(* action for the handler's tail (its finally clause and its return).      *)
(***************************************************************************)
EXTENDS Integers, Sequences, FiniteSets, TLC

VARIABLES
    \* ---- module loader (ModuleSystem, require) ----
    files,          \* Init-chosen module sources: file key -> sequence of statements
    requireCache,   \* ModuleSystem.requireCache: path string -> exports object id (0: absent)
    objects,        \* heap of plain objects: id -> sequence of <<key, value>> (insertion order)
    loading,        \* the require calls in progress, innermost last
    topCount,       \* number of top-level require calls made so far
    lastResult,     \* what the last finished top-level require returned (object id, 0: none)
    lastError,      \* the error the last top-level statement raised ("" when none)
    requireLog,     \* history: one record per require call, in call order
    \* ---- user function calls (visitCallExpr, ClouFunction.call) ----
    program,        \* Init-chosen main program: its function declarations and its call
    funcs,          \* the function value each executed declaration produced (Null: not yet)
    callFrames,     \* the user function calls in progress, innermost last
    moduleCallStack,\* Interpreter.moduleCallStack, as a set of <<closure, function name>>
    mainPc,         \* where the main program is: "declare", "call", "print", "done"
    mainResult,     \* the value the main program's call returned
    out,            \* the lines printed so far
    callLog,        \* history: one record per evaluated Call expression
    \* ---- statements of an open program (declarations, assignments, blocks) ----
    classes,        \* heap of ClouClass objects: id -> [name, superclass, methods]
    scopes,         \* the executeBlock calls in progress: their `previous` environments
    evalError,      \* the runtime error the last statement raised (<<>> when none)
    lastAssign,     \* history: the assignment expression just evaluated, if any
    instances,      \* heap of ClouInstance objects: id -> [klass, fields]
    lastEval,       \* history: the this, call, super or new expression just evaluated
    arrays,         \* heap of arrays: id -> sequence of slots (a value, or a hole)
    lastData,       \* history: the get, set, index or len expression just evaluated
    \* ---- parser (Parser) ----
    tokens,         \* Parser.tokens: the token sequence the parser was constructed with
    ast,            \* the statements Parser.parse returned (<<>> before, and when it threw)
    parseError,     \* the message of the Error Parser.parse threw ("" when none)
    \* ---- shared by every part ----
    envs,           \* heap of Environment frames: id -> [parent, vals]
    environment     \* Interpreter.environment: id of the current frame

modVars == <<files, requireCache, objects, loading, topCount, lastResult, lastError, requireLog>>
callVars == <<program, funcs, callFrames, moduleCallStack, mainPc, mainResult, out, callLog>>
stmtVars == <<classes, scopes, evalError, lastAssign, instances, lastEval, arrays, lastData>>
envVars == <<envs, environment>>
parseVars == <<tokens, ast, parseError>>
vars == <<modVars, callVars, stmtVars, envVars, parseVars>>

(***************************************************************************)
(* Bounds of the model.                                                    *)
(***************************************************************************)
MaxReqs == 1        \* require statements in one module body
MaxTop == 2         \* top-level require calls of the main program
MaxN == 6           \* largest argument of fib
MaxRing == 2        \* most modules in a ring of mutually calling functions
MaxCallDepth == 4   \* most user function calls in progress

(***************************************************************************)
(* Environment (environment.ts).  Frame 1 is Interpreter.globals.          *)
(***************************************************************************)
Globals == 1

NewEnvironment(parent) == [parent |-> parent, vals |-> <<>>]

Binding(value, isConst) == [value |-> value, isConst |-> isConst]

\* Environment.define: set, overwriting whatever the frame held under the name.
EnvDefine(es, e, name, value, isConst) ==
    [es EXCEPT ![e].vals = (name :> Binding(value, isConst)) @@ @]

(***************************************************************************)
(* Paths.  A path string is modelled as its sequence of "/"-separated      *)
(* segments; a segment is a name with or without the ".clou" suffix, or    *)
(* "." or "..".                                                            *)
(***************************************************************************)
Seg(name) == [name |-> name, clou |-> FALSE]
Clou(name) == [name |-> name, clou |-> TRUE]
Dot == Seg(".")
DotDot == Seg("..")

\* path.replace(/^\.\//, "")
StripDotSlash(p) == IF Len(p) > 1 /\ p[1] = Dot THEN Tail(p) ELSE p
\* path.replace(/^\.\.\//, "")
StripDotDotSlash(p) == IF Len(p) > 1 /\ p[1] = DotDot THEN Tail(p) ELSE p

\* normalizedPath.endsWith(".clou") ? normalizedPath : `${normalizedPath}.clou`
WithExtension(p) ==
    IF p[Len(p)].clou THEN p ELSE [p EXCEPT ![Len(p)] = Clou(p[Len(p)].name)]

\* node's path.normalize on a relative path: "." segments vanish, ".." removes the
\* segment before it unless there is none (or it is ".." itself).
RECURSIVE Normalize(_, _)
Normalize(done, rest) ==
    IF rest = <<>> THEN (IF done = <<>> THEN <<Dot>> ELSE done)
    ELSE LET s == Head(rest) IN
         IF s = Dot THEN Normalize(done, Tail(rest))
         ELSE IF s = DotDot /\ done # <<>> /\ done[Len(done)] # DotDot
              THEN Normalize(SubSeq(done, 1, Len(done) - 1), Tail(rest))
              ELSE Normalize(Append(done, s), Tail(rest))

\* path.join(currentDir, p)
Join(dir, p) == Normalize(<<>>, dir \o p)

\* Interpreter.currentDir, never reassigned.
currentDir == <<Dot>>

(***************************************************************************)
(* ModuleSystem (ast-nodes.ts, lines 427-514).                             *)
(***************************************************************************)
FileA == <<Clou("a")>>
FileB == <<Clou("b")>>
FileKeys == {FileA, FileB}

\* The spellings require is called with: "./a.clou", "a.clou", "a", "./b.clou",
\* "b", and "./c.clou", which names no file.
Paths == { <<Dot, Clou("a")>>, <<Clou("a")>>, <<Seg("a")>>,
           <<Dot, Clou("b")>>, <<Seg("b")>>,
           <<Dot, Clou("c")>> }

\* ModuleSystem.resolvePath
resolvePath(fs, path, dir) ==
    LET normalizedPath == StripDotDotSlash(StripDotSlash(path))
        withExtension == WithExtension(normalizedPath)
        relativePath == Join(dir, normalizedPath)
        relativeWithExtension == Join(dir, withExtension)
    IN  IF normalizedPath \in DOMAIN fs THEN normalizedPath
        ELSE IF withExtension \in DOMAIN fs THEN withExtension
        ELSE IF relativePath \in DOMAIN fs THEN relativePath
        ELSE IF relativeWithExtension \in DOMAIN fs THEN relativeWithExtension
        ELSE normalizedPath

\* ModuleSystem.getModuleSource finds a source (it throws otherwise).
HasModuleSource(fs, path, dir) == resolvePath(fs, path, dir) \in DOMAIN fs

\* ModuleSystem.getCachedModule: the cache is read under the string it is given.
getCachedModule_miss(cache, path) == 0
getCachedModule(cache, path) == cache[path]

\* Mutant: the exports object is not cached.
cacheModule_dropped(cache, path, exports) == cache

\* ModuleSystem.cacheModule: the cache is written under the string it is given.
cacheModule(cache, path, exports) == [cache EXCEPT ![path] = exports]

(***************************************************************************)
(* Plain objects: an insertion-ordered map.                                *)
(***************************************************************************)
ObjKeys(o) == {o[i][1] : i \in 1..Len(o)}

\* obj[key] = value
ObjSet(o, key, value) ==
    IF key \in ObjKeys(o)
    THEN [i \in 1..Len(o) |-> IF o[i][1] = key THEN <<key, value>> ELSE o[i]]
    ELSE Append(o, <<key, value>>)

(***************************************************************************)
(* Module sources.  A module body is                                       *)
(*     exports.first = ...;  <require statements>  exports.last = ...;     *)
(* with the require statements chosen in Init.                             *)
(***************************************************************************)
ReqStmt(path) == [op |-> "require", path |-> path]
ExpStmt(key) == [op |-> "export", key |-> key]

RECURSIVE SeqsUpTo(_, _)
SeqsUpTo(S, n) ==
    IF n = 0 THEN {<<>>}
    ELSE LET shorter == SeqsUpTo(S, n - 1)
         IN  shorter \cup {Append(s, x) : s \in shorter, x \in S}

Bodies ==
    { <<ExpStmt("first")>> \o reqs \o <<ExpStmt("last")>> :
        reqs \in SeqsUpTo({ReqStmt(p) : p \in Paths}, MaxReqs) }

\* The keys a module body assigns on its exports object.
AssignedKeys(body) == {body[i].key : i \in {j \in 1..Len(body) : body[j].op = "export"}}


(***************************************************************************)
(* Values.                                                                 *)
(***************************************************************************)
ObjRef(id) == [t |-> "obj", id |-> id]

(***************************************************************************)
(* The built-in require (interpreter.ts, lines 79-121).                    *)
(*                                                                         *)
(* A frame of `loading` is one require call whose module body is running:  *)
(* path (the string passed), file (the source it resolved to), exports     *)
(* (exportsObj), env (moduleEnv), previousEnv, body and pc (the next       *)
(* statement of the body), call (its index in requireLog).                 *)
(***************************************************************************)
\* No module body can nest deeper than this: every nested load caches a new path.
MaxLoadDepth == Cardinality(Paths) + 1

Top == loading[Len(loading)]

AtStmt(op) ==
    /\ loading # <<>>
    /\ Top.pc <= Len(Top.body)
    /\ Top.body[Top.pc].op = op

\* The path of the require call that is about to be evaluated: the next top-level
\* statement of the main program, or the statement the running module body is at.
RequestedPaths ==
    IF loading = <<>>
    THEN (IF topCount < MaxTop THEN Paths ELSE {})
    ELSE (IF AtStmt("require") THEN {Top.body[Top.pc].path} ELSE {})

LogEntry(path, exports, cached) ==
    [path |-> path, file |-> resolvePath(files, path, currentDir),
     exports |-> exports, cached |-> cached, returned |-> cached,
     depth |-> Len(loading)]

\* The caller of a require call receives `exports`: the main program keeps it, a
\* module body binds it (const dep = require(...)) and goes on.
ReturnToCaller(stack, es, exports) ==
    IF stack = <<>>
    THEN /\ lastResult' = exports
         /\ topCount' = topCount + 1
         /\ loading' = stack
         /\ envs' = es
    ELSE /\ UNCHANGED <<lastResult, topCount>>
         /\ loading' = [stack EXCEPT ![Len(stack)].pc = @ + 1]
         /\ envs' = EnvDefine(es, stack[Len(stack)].env, "dep", ObjRef(exports), TRUE)

\* What no step of require touches.
ModuleOnly == UNCHANGED <<callVars, stmtVars, parseVars>>

\* Lines 87-90: the path string is in the cache; the cached value is returned.
RequireCached(path) ==
    /\ ModuleOnly
    /\ path \in RequestedPaths
    /\ getCachedModule(requireCache, path) # 0
    /\ ReturnToCaller(loading, envs, getCachedModule(requireCache, path))
    /\ requireLog' = Append(requireLog,
                            LogEntry(path, getCachedModule(requireCache, path), TRUE))
    /\ lastError' = IF loading = <<>> THEN "" ELSE lastError
    /\ UNCHANGED <<files, requireCache, objects, environment>>

\* Lines 92-98: moduleEnv, exportsObj, and the cache entry made before the source is
\* even looked up.
Allocated_global(path) ==
    LET exportsObj == Len(objects) + 1
    IN  [exports |-> exportsObj,
         env |-> Globals,
         objects |-> Append(objects, <<>>),
         envs |-> EnvDefine(envs, Globals, "exports", ObjRef(exportsObj), FALSE),
         cache |-> cacheModule(requireCache, path, exportsObj)]
Allocated(path) ==
    LET exportsObj == Len(objects) + 1
        moduleEnv == Len(envs) + 1
    IN  [exports |-> exportsObj,
         env |-> moduleEnv,
         objects |-> Append(objects, <<>>),
         envs |-> EnvDefine(Append(envs, NewEnvironment(Globals)), moduleEnv,
                            "exports", ObjRef(exportsObj), FALSE),
         cache |-> cacheModule(requireCache, path, exportsObj)]

\* Lines 92-113, up to the first statement of the module body.
RequireLoad(path) ==
    /\ ModuleOnly
    /\ path \in RequestedPaths
    /\ getCachedModule(requireCache, path) = 0
    /\ HasModuleSource(files, path, currentDir)
    /\ Len(loading) < MaxLoadDepth
    /\ LET a == Allocated(path)
           file == resolvePath(files, path, currentDir)
       IN  /\ objects' = a.objects
           /\ envs' = a.envs
           /\ requireCache' = a.cache
           /\ loading' = Append(loading,
                  [path |-> path, file |-> file, exports |-> a.exports,
                   env |-> a.env, previousEnv |-> environment,
                   body |-> files[file], pc |-> 1,
                   call |-> Len(requireLog) + 1])
           /\ environment' = a.env
           /\ requireLog' = Append(requireLog, LogEntry(path, a.exports, FALSE))
    /\ lastError' = IF loading = <<>> THEN "" ELSE lastError
    /\ UNCHANGED <<files, topCount, lastResult>>

\* Lines 92-101 when getModuleSource throws: the error leaves every require call in
\* progress through its finally clause (line 115), the outermost of which restores
\* the environment of the main program.
RequireMissing(path) ==
    /\ ModuleOnly
    /\ path \in RequestedPaths
    /\ getCachedModule(requireCache, path) = 0
    /\ ~HasModuleSource(files, path, currentDir)
    /\ LET a == Allocated(path)
       IN  /\ objects' = a.objects
           /\ envs' = a.envs
           /\ requireCache' = a.cache
           /\ requireLog' = Append(requireLog, LogEntry(path, a.exports, FALSE))
    /\ loading' = <<>>
    /\ environment' = IF loading = <<>> THEN environment ELSE loading[1].previousEnv
    /\ lastError' = "Cannot find module"
    /\ topCount' = topCount + 1
    /\ lastResult' = 0
    /\ UNCHANGED files

\* A statement `exports.key = value;` of the module body (visitSetExpr on the
\* object the name exports resolves to in the current environment).
ExportStmt ==
    /\ ModuleOnly
    /\ AtStmt("export")
    /\ LET target == envs[environment].vals["exports"].value.id
       IN  objects' = [objects EXCEPT ![target] =
                          ObjSet(@, Top.body[Top.pc].key, Top.file)]
    /\ loading' = [loading EXCEPT ![Len(loading)].pc = @ + 1]
    /\ UNCHANGED <<files, requireCache, topCount, lastResult, lastError, requireLog>>
    /\ UNCHANGED envVars

\* Lines 114-118: the body is done; finally restores the environment and the
\* exports object is returned.
RequireReturn ==
    /\ ModuleOnly
    /\ loading # <<>>
    /\ Top.pc > Len(Top.body)
    /\ environment' = Top.previousEnv
    /\ requireLog' = [requireLog EXCEPT ![Top.call].returned = TRUE]
    /\ ReturnToCaller(SubSeq(loading, 1, Len(loading) - 1), envs, Top.exports)
    /\ UNCHANGED <<files, requireCache, objects, lastError>>

\* No main program with user functions.
\* No assignment expression has just been evaluated.
NoAssign == [name |-> "", isConst |-> FALSE, before |-> [t |-> "null"],
             after |-> [t |-> "null"], error |-> <<>>, nested |-> FALSE]

\* No this, call, super or new expression has just been evaluated and no
\* call has just returned.
NoEval == [op |-> "none", target |-> 0, name |-> "", shadowed |-> FALSE, outcome |-> "",
           decl |-> [place |-> "", name |-> ""], this |-> [t |-> "null"],
           kind |-> "", self |-> 0, from |-> "", value |-> [t |-> "null"]]

\* No get, set, index, index assignment or len expression has just been evaluated.
\* (length: how long the array was before an index assignment to it.)
NoData == [op |-> "none", kind |-> "", target |-> 0, name |-> "", index |-> [t |-> "null"],
           value |-> [t |-> "null"], outcome |-> "", length |-> 0]

StmtIdle ==
    /\ instances = <<>>
    /\ lastEval = NoEval
    /\ arrays = <<>>
    /\ lastData = NoData
    /\ tokens = <<>>
    /\ ast = <<>>
    /\ parseError = ""
    /\ classes = <<>>
    /\ scopes = <<>>
    /\ evalError = <<>>
    /\ lastAssign = NoAssign

CallIdle ==
    /\ StmtIdle
    /\ program = [decls |-> <<>>]
    /\ funcs = <<>>
    /\ callFrames = <<>>
    /\ moduleCallStack = {}
    /\ mainPc = "done"
    /\ mainResult = [t |-> "null"]
    /\ out = <<>>
    /\ callLog = <<>>

ModInit ==
    /\ CallIdle
    /\ files \in [FileKeys -> Bodies]
    /\ requireCache = [p \in Paths |-> 0]
    /\ objects = <<>>
    /\ loading = <<>>
    /\ topCount = 0
    /\ lastResult = 0
    /\ lastError = ""
    /\ requireLog = <<>>
    /\ envs = <<NewEnvironment(0)>>
    /\ environment = Globals

ModNext ==
    \/ \E path \in Paths : RequireCached(path)
    \/ \E path \in Paths : RequireLoad(path)
    \/ \E path \in Paths : RequireMissing(path)
    \/ ExportStmt
    \/ RequireReturn

SpecModules == ModInit /\ [][ModNext]_vars

\* The interpreter never pauses in the middle of a statement.
SpecModulesFair == SpecModules /\ WF_vars(ModNext)

(***************************************************************************)
(* Programs in which a.clou and b.clou require each other at top level     *)
(* and require nothing that does not exist.                                *)
(***************************************************************************)
RequiredFiles(fs, body) ==
    {resolvePath(fs, body[i].path, currentDir) :
        i \in {j \in 1..Len(body) : body[j].op = "require"}}

IsCycle(fs) ==
    /\ FileB \in RequiredFiles(fs, fs[FileA])
    /\ FileA \in RequiredFiles(fs, fs[FileB])
    /\ RequiredFiles(fs, fs[FileA]) \cup RequiredFiles(fs, fs[FileB]) \subseteq FileKeys

CycleInit == ModInit /\ IsCycle(files)

SpecCycle == CycleInit /\ [][ModNext]_vars /\ WF_vars(ModNext)

(***************************************************************************)
(* Claims about the module loader.                                         *)
(***************************************************************************)
Finished(k) == requireLog[k].returned /\ requireLog[k].file \in FileKeys

\* C1: any two require calls that returned and whose path arguments resolve to the
\* same module file returned the same exports object, whatever the spelling.
C1_SameFileSameExports ==
    \A i, j \in 1..Len(requireLog) :
        (Finished(i) /\ Finished(j) /\ requireLog[i].file = requireLog[j].file)
            => requireLog[i].exports = requireLog[j].exports

\* C2: while the body of module M runs, M's fresh exports object is the cache entry
\* of the path it was loaded under, and every require of M issued since the body
\* started yields that same exports object (no second execution of M's body).
C2_RunningModuleIsCached ==
    \A f \in 1..Len(loading) :
        /\ getCachedModule(requireCache, loading[f].path) = loading[f].exports
        /\ \A k \in 1..Len(requireLog) :
              (k > loading[f].call /\ requireLog[k].file = loading[f].file)
                  => requireLog[k].exports = loading[f].exports

\* The last require call the main program made.
LastTopCall ==
    LET tops == {k \in 1..Len(requireLog) : requireLog[k].depth = 0}
    IN  CHOOSE k \in tops : \A m \in tops : m <= k

C3_State ==
    IsCycle(files) =>
        /\ lastError # "" => requireLog[LastTopCall].file \notin FileKeys
        /\ loading = <<>> =>
              \A p \in Paths :
                  LET file == resolvePath(files, p, currentDir) IN
                  (getCachedModule(requireCache, p) # 0 /\ file \in FileKeys)
                      => AssignedKeys(files[file])
                            \subseteq ObjKeys(objects[getCachedModule(requireCache, p)])

\* C3: with a.clou and b.clou requiring each other, every top-level require ends,
\* a top-level require of either raises no error, and once it has returned every
\* key the two bodies assign is on the cached exports objects.
C3_CycleTerminates ==
    /\ []C3_State
    /\ (loading # <<>>) ~> (loading = <<>>)

\* A top-level require of a module of the cycle has returned, and on the way a
\* module two levels down required a module whose body was still running.
C3_Witness ==
    /\ IsCycle(files)
    /\ loading = <<>>
    /\ lastResult # 0
    /\ lastError = ""
    /\ \E k \in 1..Len(requireLog) : requireLog[k].depth = 2 /\ requireLog[k].cached
    /\ ObjKeys(objects[lastResult]) = {"first", "last"}

(***************************************************************************)
(* Values of the language (ValueType, environment.ts lines 6-15), and the  *)
(* conversions the evaluator applies to them.  A string is the sequence    *)
(* of its characters.                                                      *)
(***************************************************************************)
Null == [t |-> "null"]
Num(n) == [t |-> "num", n |-> n]
Str(s) == [t |-> "str", s |-> s]
RuntimeError(message) == [t |-> "error", message |-> message]

\* A function declaration of the program text (AST.Function): its name and its place,
\* which is the class statement it is a method of, "" for a function statement of the
\* open program, the index in program.decls for a function of a main program.
Declaration(place, name) == [place |-> place, name |-> name]

\* new ClouFunction(declaration, closure, isInitializer, boundThis)
ClouFunction(decl, closure, isInitializer, boundThis) ==
    [t |-> "fn", decl |-> decl, closure |-> closure,
     isInitializer |-> isInitializer, boundThis |-> boundThis]

DigitChars == <<"0", "1", "2", "3", "4", "5", "6", "7", "8", "9">>

\* String(n) for a natural number n.
RECURSIVE NatToString(_)
NatToString(n) ==
    IF n < 10 THEN <<DigitChars[n + 1]>>
    ELSE NatToString(n \div 10) \o <<DigitChars[(n % 10) + 1]>>

\* String(value)
StringOf(v) ==
    CASE v.t = "str" -> v.s
      [] v.t = "num" -> IF v.n < 0 THEN <<"-">> \o NatToString(0 - v.n) ELSE NatToString(v.n)
      [] v.t = "null" -> <<"n", "u", "l", "l">>
      [] OTHER -> <<"?">>

\* visitBinaryExpr, case PLUS (lines 288-295)
Plus(left, right) ==
    IF left.t = "num" /\ right.t = "num" THEN Num(left.n + right.n)
    ELSE IF left.t = "str" \/ right.t = "str" THEN Str(StringOf(left) \o StringOf(right))
    ELSE RuntimeError("Operands must be numbers or strings.")

\* Environment.get: the nearest frame of the chain that binds the name.
RECURSIVE EnvGet(_, _, _)
EnvGet(es, e, name) ==
    IF name \in DOMAIN es[e].vals THEN es[e].vals[name].value
    ELSE IF es[e].parent # 0 THEN EnvGet(es, es[e].parent, name)
    ELSE RuntimeError("Undefined variable")

(***************************************************************************)
(* Main programs with user functions.  A function body is                  *)
(*     [if (n <= 1) return n;]  return term1 + term2;                      *)
(* where a term is a literal or a call g(n - delta) of a declared          *)
(* function.                                                               *)
(***************************************************************************)
Lit(v) == [k |-> "lit", v |-> v, decl |-> 0, delta |-> 0]
CallTerm(decl, delta) == [k |-> "call", v |-> Null, decl |-> decl, delta |-> delta]

FunctionDecl(name, closure, params, guard, terms) ==
    [name |-> name, closure |-> closure, params |-> params, guard |-> guard,
     terms |-> terms]

\* function fib(n) { if (n <= 1) return n; return fib(n - 1) + fib(n - 2); }
\* print(fib(n));
FibProgram(n) ==
    [decls |-> <<FunctionDecl("fib", Globals, <<"n">>, TRUE, <<CallTerm(1, 1), CallTerm(1, 2)>>)>>,
     label |-> <<>>, arg |-> Num(n)]

Tags == <<"A", "B", "C", "D">>
FunctionNames == {"getValue", "getOther"}
\* The module environment of the i-th module of a ring (frame 1 is globals).
ModuleEnv(i) == i + 1

\* Module i declares  function <name>() { return "<tag i>" + <next module>.<name>(); }
\* and the main program is  print("Value:", <module 1>.<name>());
RingProgram(names, closures) ==
    [decls |-> [i \in 1..Len(names) |->
                   FunctionDecl(names[i], closures[i], <<>>, FALSE,
                                <<Lit(Str(<<Tags[i]>>)), CallTerm((i % Len(names)) + 1, 0)>>)],
     label |-> <<Str(<<"V", "a", "l", "u", "e", ":">>)>>, arg |-> Null]

Programs ==
    {FibProgram(n) : n \in 0..MaxN}
    \cup UNION { {RingProgram(names, closures) :
                    names \in [1..k -> FunctionNames],
                    closures \in [1..k -> {ModuleEnv(i) : i \in 1..k}]} : k \in 2..MaxRing }

\* The a.clou / b.clou program of the circular dependencies test.
IsABProgram(prog) ==
    prog = RingProgram(<<"getValue", "getValue">>, <<ModuleEnv(1), ModuleEnv(2)>>)

(***************************************************************************)
(* Calls of user functions: visitCallExpr (interpreter.ts, lines 382-439)  *)
(* and ClouFunction.call (environment.ts, lines 148-192).                  *)
(*                                                                         *)
(* A frame of callFrames is one call in progress: fn (the callee), env     *)
(* (the frame its body runs in), previous (the environment visitCallExpr   *)
(* restores), pc (0: at the if statement; i: at term i of the return       *)
(* expression; one past the last term: at the return), vals (the terms     *)
(* evaluated so far).                                                      *)
(***************************************************************************)
\* What no step of a call touches.
CallsOnly == UNCHANGED <<modVars, stmtVars, parseVars>>

TopFrame == callFrames[Len(callFrames)]
DeclOf(frame) == program.decls[frame.fn.decl.place]

AtTerm(kind) ==
    /\ callFrames # <<>>
    /\ TopFrame.pc \in 1..Len(DeclOf(TopFrame).terms)
    /\ DeclOf(TopFrame).terms[TopFrame.pc].k = kind

\* The Call expression about to be evaluated, if any: [decl, arg].
PendingCalls ==
    IF callFrames = <<>>
    THEN (IF mainPc = "call" THEN {[decl |-> 1, arg |-> program.arg]} ELSE {})
    ELSE IF AtTerm("call")
         THEN LET term == DeclOf(TopFrame).terms[TopFrame.pc]
                  n == EnvGet(envs, environment, "n")
              IN  {[decl |-> term.decl,
                    arg |-> IF term.delta = 0 THEN Null ELSE Num(n.n - term.delta)]}
         ELSE {}

\* The caller receives the value of its Call expression.
Deliver(stack, value) ==
    IF stack = <<>>
    THEN /\ mainResult' = value
         /\ mainPc' = "print"
         /\ callFrames' = stack
    ELSE /\ UNCHANGED <<mainResult, mainPc>>
         /\ callFrames' = [stack EXCEPT ![Len(stack)].vals = Append(@, value),
                                        ![Len(stack)].pc = @ + 1]

\* const functionKey = callee.declaration.name?.lexeme ?? "anonymous"
functionKey(callee) == callee.decl.name

\* Mutant: the re-entry guard never finds the function.
InCallStack_never(mcs, callee) == FALSE

\* callStack.has(functionKey), with callStack the set kept for callee.closure
InCallStack(mcs, callee) == <<callee.closure, functionKey(callee)>> \in mcs

\* The functions executing through a Call expression.
Executing == {<<callFrames[i].fn.decl, callFrames[i].fn.closure>> : i \in 1..Len(callFrames)}

CallRecord(callee, outcome, value) ==
    [decl |-> callee.decl, closure |-> callee.closure, executing |-> Executing,
     outcome |-> outcome, value |-> value]

\* function name(...) {...}: the function value closes over the environment the
\* declaration is executed in, and the name is defined there.
visitFunctionStmt ==
    /\ CallsOnly
    /\ mainPc = "declare"
    /\ LET i == Len(funcs) + 1
           decl == program.decls[i]
           func == ClouFunction(Declaration(i, decl.name), decl.closure, FALSE, Null)
       IN  /\ funcs' = Append(funcs, func)
           /\ envs' = EnvDefine(envs, decl.closure, decl.name, func, FALSE)
           /\ mainPc' = IF i = Len(program.decls) THEN "call" ELSE "declare"
    /\ UNCHANGED <<program, callFrames, moduleCallStack, mainResult, out, callLog,
                   environment>>

\* visitCallExpr, lines 411-416: a function of this name is in the call stack kept
\* for the callee's closure; the call returns "".
CallSuppressed ==
    /\ CallsOnly
    /\ \E c \in PendingCalls :
          LET callee == funcs[c.decl] IN
          /\ InCallStack(moduleCallStack, callee)
          /\ Deliver(callFrames, Str(<<>>))
          /\ callLog' = Append(callLog, CallRecord(callee, "suppressed", Str(<<>>)))
    /\ UNCHANGED <<program, funcs, moduleCallStack, out, envs, environment>>

\* visitCallExpr, lines 391-426, and ClouFunction.call, lines 148-176, up to the
\* first statement of the body.
CallEnter ==
    /\ CallsOnly
    /\ Len(callFrames) < MaxCallDepth
    /\ \E c \in PendingCalls :
          LET callee == funcs[c.decl]
              decl == program.decls[c.decl]
              callEnv == Len(envs) + 1
              bodyEnv == Len(envs) + 2
              withThis(es, e) == IF callee.boundThis = Null THEN es
                                 ELSE EnvDefine(es, e, "this", callee.boundThis, FALSE)
              withParams(es, e) == IF decl.params = <<>> THEN es
                                   ELSE EnvDefine(es, e, decl.params[1], c.arg, FALSE)
          IN
          /\ ~InCallStack(moduleCallStack, callee)
          /\ moduleCallStack' = moduleCallStack \cup {<<callee.closure, functionKey(callee)>>}
          /\ envs' = withParams(
                        withThis(
                           withThis(envs \o <<NewEnvironment(callee.closure),
                                              NewEnvironment(callee.closure)>>, callEnv),
                           bodyEnv),
                        bodyEnv)
          /\ environment' = bodyEnv
          /\ callFrames' = Append(callFrames,
                 [fn |-> callee, env |-> bodyEnv, previous |-> environment,
                  pc |-> IF decl.guard THEN 0 ELSE 1, vals |-> <<>>])
          /\ callLog' = Append(callLog, CallRecord(callee, "entered", Null))
    /\ UNCHANGED <<program, funcs, mainPc, mainResult, out>>

\* The body returns `value`: ClouFunction.call lines 177-183, then the finally
\* clause of visitCallExpr, lines 427-434.
FunctionReturn(value) ==
    /\ environment' = TopFrame.previous
    /\ moduleCallStack' = moduleCallStack \ {<<TopFrame.fn.closure, functionKey(TopFrame.fn)>>}
    /\ Deliver(SubSeq(callFrames, 1, Len(callFrames) - 1), value)

\* if (n <= 1) return n;
visitIfStmt ==
    /\ CallsOnly
    /\ callFrames # <<>>
    /\ TopFrame.pc = 0
    /\ LET n == EnvGet(envs, environment, "n") IN
       IF n.n <= 1
       THEN FunctionReturn(n)
       ELSE /\ callFrames' = [callFrames EXCEPT ![Len(callFrames)].pc = 1]
            /\ UNCHANGED <<environment, moduleCallStack, mainPc, mainResult>>
    /\ UNCHANGED <<program, funcs, out, callLog, envs>>

\* A literal term of the return expression.
visitLiteralExpr ==
    /\ CallsOnly
    /\ AtTerm("lit")
    /\ callFrames' = [callFrames EXCEPT
                         ![Len(callFrames)].vals =
                             Append(@, DeclOf(TopFrame).terms[TopFrame.pc].v),
                         ![Len(callFrames)].pc = @ + 1]
    /\ UNCHANGED <<program, funcs, moduleCallStack, mainPc, mainResult, out, callLog>>
    /\ UNCHANGED envVars

\* return term1 + term2;
visitReturnStmt ==
    /\ CallsOnly
    /\ callFrames # <<>>
    /\ TopFrame.pc = Len(DeclOf(TopFrame).terms) + 1
    /\ FunctionReturn(Plus(TopFrame.vals[1], TopFrame.vals[2]))
    /\ UNCHANGED <<program, funcs, out, callLog, envs>>

\* args.map(stringify).join(" ") of the built-in print, lines 51-52
RECURSIVE JoinWithSpace(_)
JoinWithSpace(strings) ==
    IF strings = <<>> THEN <<>>
    ELSE IF Len(strings) = 1 THEN strings[1]
    ELSE strings[1] \o <<" ">> \o JoinWithSpace(Tail(strings))

\* print(label..., result);
printStmt ==
    /\ CallsOnly
    /\ mainPc = "print"
    /\ LET args == program.label \o <<mainResult>>
       IN  out' = Append(out, JoinWithSpace([i \in 1..Len(args) |-> StringOf(args[i])]))
    /\ mainPc' = "done"
    /\ UNCHANGED <<program, funcs, callFrames, moduleCallStack, mainResult, callLog>>
    /\ UNCHANGED envVars

\* No module is loaded.
ModIdle ==
    /\ files = [f \in FileKeys |-> <<>>]
    /\ requireCache = [p \in Paths |-> 0]
    /\ objects = <<>>
    /\ loading = <<>>
    /\ topCount = 0
    /\ lastResult = 0
    /\ lastError = ""
    /\ requireLog = <<>>

\* The main program is about to execute its function declarations; the module
\* environments the declarations close over exist.
CallInit ==
    /\ ModIdle
    /\ StmtIdle
    /\ program \in Programs
    /\ funcs = <<>>
    /\ callFrames = <<>>
    /\ moduleCallStack = {}
    /\ mainPc = "declare"
    /\ mainResult = Null
    /\ out = <<>>
    /\ callLog = <<>>
    /\ envs = <<NewEnvironment(0)>> \o [i \in 1..MaxRing |-> NewEnvironment(Globals)]
    /\ environment = Globals

CallNext ==
    \/ visitFunctionStmt
    \/ CallSuppressed
    \/ CallEnter
    \/ visitIfStmt
    \/ visitLiteralExpr
    \/ visitReturnStmt
    \/ printStmt

SpecCalls == CallInit /\ [][CallNext]_vars

(***************************************************************************)
(* Claims about calls of user functions.                                   *)
(***************************************************************************)
\* C4: a Call of a function that is already executing (same declaration, same
\* closure environment) returns "" and the body is not entered again; and the
\* a.clou / b.clou program prints exactly "Value: AB".
C4_ReentryReturnsEmpty ==
    /\ \A i, j \in 1..Len(callFrames) :
          (i # j) => <<callFrames[i].fn.decl, callFrames[i].fn.closure>>
                        # <<callFrames[j].fn.decl, callFrames[j].fn.closure>>
    /\ \A k \in 1..Len(callLog) :
          (<<callLog[k].decl, callLog[k].closure>> \in callLog[k].executing)
              => (callLog[k].outcome = "suppressed" /\ callLog[k].value = Str(<<>>))
    /\ (IsABProgram(program) /\ mainPc = "done")
          => out = << <<"V", "a", "l", "u", "e", ":", " ", "A", "B">> >>

\* The a.clou / b.clou program has printed its line, after b's getValue called a's
\* getValue while that was executing.
C4_Witness ==
    /\ IsABProgram(program)
    /\ mainPc = "done"
    /\ Len(out) = 1
    /\ \E k \in 1..Len(callLog) :
          /\ callLog[k].outcome = "suppressed"
          /\ <<callLog[k].decl, callLog[k].closure>> \in callLog[k].executing

\* The n-th Fibonacci number.
RECURSIVE Fibonacci(_)
Fibonacci(n) == IF n <= 1 THEN n ELSE Fibonacci(n - 1) + Fibonacci(n - 2)

MaxFrames == 3      \* most Environment frames created
MaxClasses == 2     \* most ClouClass objects created

Names == {"x"}
Literals == {Num(1), Num(2)}

NoError == <<>>
ConstError(name) == <<"Cannot reassign const variable", name>>
UndefinedError(name) == <<"Undefined variable", name>>
SuperclassError == <<"Superclass must be a class.">>

\* The frame of the chain that binds the name (0: none): the walk that Environment.get
\* and Environment.assign share.
RECURSIVE Resolve(_, _, _)
Resolve(es, e, name) ==
    IF name \in DOMAIN es[e].vals THEN e
    ELSE IF es[e].parent # 0 THEN Resolve(es, es[e].parent, name)
    ELSE 0

\* Mutant: the frame that holds the name is written whether or not it is const.
AssignHere_unchecked(es, e, name, value) ==
    [envs |-> [es EXCEPT ![e].vals[name].value = value], error |-> NoError]

\* Environment.assign, lines 361-370: the frame holds the name.
AssignHere(es, e, name, value) ==
    IF es[e].vals[name].isConst
    THEN [envs |-> es, error |-> ConstError(name)]
    ELSE [envs |-> [es EXCEPT ![e].vals[name].value = value], error |-> NoError]

\* Mutant: a name that no frame of the chain holds is defined in the globals.
AssignMissing_defined(es, name, value) ==
    [envs |-> EnvDefine(es, Globals, name, value, FALSE), error |-> NoError]

\* Environment.assign, line 377: no frame of the chain holds the name.
AssignMissing(es, name, value) == [envs |-> es, error |-> UndefinedError(name)]

\* Environment.assign
RECURSIVE EnvAssign(_, _, _, _)
EnvAssign(es, e, name, value) ==
    IF name \in DOMAIN es[e].vals THEN AssignHere(es, e, name, value)
    ELSE IF es[e].parent # 0 THEN EnvAssign(es, es[e].parent, name, value)
    ELSE AssignMissing(es, name, value)

\* new ClouClass(name, superclass, methods)
ClouClass(name, superclass, methods) ==
    [name |-> name, superclass |-> superclass, methods |-> methods, properties |-> <<>>]

ClassRef(id) == [t |-> "class", id |-> id]

\* visitClassStmt: the environments, the class heap and the error after
\*     class name [extends superName] { function m() {...} for m in methodNames }
\* executed in frame env (superName "" when there is no extends clause).
ClassStmt(es, cs, env, name, superName, methodNames) ==
    LET hasSuper == superName # ""
        superclass == IF hasSuper THEN EnvGet(es, env, superName) ELSE Null
        classEnvironment == Len(es) + 1
        declared == EnvDefine(Append(es, NewEnvironment(env)), env, name, Null, FALSE)
        withSuper == IF hasSuper
                     THEN EnvDefine(declared, classEnvironment, "super", superclass, FALSE)
                     ELSE declared
        methods == [m \in methodNames |->
                      IF hasSuper
                      THEN ClouFunction(Declaration(name, m), classEnvironment, FALSE, Null)
                      ELSE ClouFunction(Declaration(name, m), env, m = "init", Null)]
        klass == Len(cs) + 1
        assigned == EnvAssign(withSuper, env, name, ClassRef(klass))
    IN  IF hasSuper /\ superclass.t = "error"
        THEN [envs |-> es, classes |-> cs, error |-> UndefinedError(superName)]
        ELSE IF hasSuper /\ superclass.t # "class"
        THEN [envs |-> es, classes |-> cs, error |-> SuperclassError]
        ELSE [envs |-> assigned.envs,
              classes |-> Append(cs, ClouClass(name, superclass, methods)),
              error |-> assigned.error]

\* What no statement of the open program touches.
StmtOnly ==
    /\ UNCHANGED <<modVars, callVars, instances, lastEval, arrays, parseVars>>
    /\ lastData' = NoData

\* A statement completes, or raises: every executeBlock in progress restores its
\* previous environment on the way out (lines 684-686).
Complete(error) ==
    /\ evalError' = error
    /\ IF error = NoError
       THEN UNCHANGED <<scopes, environment>>
       ELSE /\ scopes' = <<>>
            /\ environment' = IF scopes = <<>> THEN environment ELSE scopes[1]

\* let name [= value];   const name = value;
visitVarStmt(name, value, isConst) ==
    /\ StmtOnly
    /\ envs' = EnvDefine(envs, environment, name, value, isConst)
    /\ Complete(NoError)
    /\ lastAssign' = NoAssign
    /\ UNCHANGED classes

\* name = value;
visitAssignExpr(name, value) ==
    /\ StmtOnly
    /\ LET frame == Resolve(envs, environment, name)
           result == EnvAssign(envs, environment, name, value)
       IN  /\ envs' = result.envs
           /\ Complete(result.error)
           /\ lastAssign' = [name |-> name,
                             isConst |-> frame # 0 /\ envs[frame].vals[name].isConst,
                             before |-> EnvGet(envs, environment, name),
                             after |-> EnvGet(result.envs, environment, name),
                             error |-> result.error,
                             nested |-> frame # environment]
    /\ UNCHANGED classes

\* name;  an expression statement that reads the variable.
visitVariableExpr(name) ==
    /\ UNCHANGED <<modVars, callVars, instances, lastEval, arrays, parseVars>>
    /\ UNCHANGED <<classes, envs>>
    /\ lastAssign' = NoAssign
    /\ LET value == EnvGet(envs, environment, name)
       IN  /\ Complete(IF value.t = "error" THEN UndefinedError(name) ELSE NoError)
           /\ lastData' = [NoData EXCEPT !.op = "variable", !.name = name,
                                         !.value = value,
                                         !.outcome = IF value.t = "error" THEN "raised"
                                                     ELSE "value"]

\* { ... : executeBlock(statements, new Environment(this.environment)) up to the
\* first statement.
visitBlockStmt ==
    /\ StmtOnly
    /\ Len(envs) < MaxFrames
    /\ envs' = Append(envs, NewEnvironment(environment))
    /\ scopes' = Append(scopes, environment)
    /\ environment' = Len(envs) + 1
    /\ evalError' = NoError
    /\ lastAssign' = NoAssign
    /\ UNCHANGED classes

\* ... }: the finally clause of executeBlock.
executeBlockEnd ==
    /\ StmtOnly
    /\ scopes # <<>>
    /\ environment' = scopes[Len(scopes)]
    /\ scopes' = SubSeq(scopes, 1, Len(scopes) - 1)
    /\ lastAssign' = NoAssign
    /\ UNCHANGED <<classes, evalError, envs>>

\* function name() {...}
declareFunction(name) ==
    /\ StmtOnly
    /\ envs' = EnvDefine(envs, environment, name,
                         ClouFunction(Declaration("", name), environment, FALSE, Null), FALSE)
    /\ Complete(NoError)
    /\ lastAssign' = NoAssign
    /\ UNCHANGED classes

\* class name [extends superName] { function m() {...} for m in methodNames }
visitClassStmt(name, superName, methodNames) ==
    /\ StmtOnly
    /\ LET result == ClassStmt(envs, classes, environment, name, superName, methodNames)
       IN  /\ envs' = result.envs
           /\ classes' = result.classes
           /\ Complete(result.error)
    /\ lastAssign' = NoAssign

\* The heap id of a value that lives on a heap, 0 for a primitive value.
IdOf(value) == IF "id" \in DOMAIN value THEN value.id ELSE 0

InstRef(id) == [t |-> "inst", id |-> id]

\* new ClouInstance(klass): no fields yet.
ClouInstance(klass) == [klass |-> klass, fields |-> <<>>]

FieldsError == <<"Only instances and objects have fields.">>

\* objectName.property = valueName;
\* The target may be an instance (ClouInstance.set: a field of the instance) or any
\* other object of the host, a ClouClass among them, whose property is then written
\* directly; of the properties of a ClouClass the model keeps superclass.
visitSetExpr(objectName, property, valueName) ==
    /\ UNCHANGED <<files, requireCache, loading, topCount, lastResult, lastError, requireLog,
                   callVars, lastEval, arrays, parseVars>>
    /\ lastAssign' = NoAssign
    /\ LET object == EnvGet(envs, environment, objectName)
           value == EnvGet(envs, environment, valueName)
           error == IF object.t = "error" THEN UndefinedError(objectName)
                    ELSE IF object.t \notin {"inst", "class", "fn", "obj", "arr"}
                    THEN FieldsError
                    ELSE IF value.t = "error" THEN UndefinedError(valueName)
                    ELSE NoError
           stored == error = NoError
       IN  /\ Complete(error)
           /\ instances' = IF stored /\ object.t = "inst"
                           THEN [instances EXCEPT ![object.id].fields = (property :> value) @@ @]
                           ELSE instances
           /\ classes' = IF stored /\ object.t = "class" /\ property = "superclass"
                         THEN [classes EXCEPT ![object.id].superclass = value]
                         ELSE classes
           /\ objects' = IF stored /\ object.t = "obj"
                         THEN [objects EXCEPT ![object.id] = ObjSet(@, property, value)]
                         ELSE objects
           /\ lastData' = IF object.t = "error" THEN NoData
                          ELSE [NoData EXCEPT !.op = "set", !.kind = object.t,
                                              !.target = IdOf(object), !.name = property,
                                              !.value = IF stored THEN value ELSE Null,
                                              !.outcome = IF stored THEN "stored"
                                                          ELSE "raised"]
    /\ UNCHANGED envs

EnvInit ==
    /\ ModIdle
    /\ CallIdle
    /\ envs = <<NewEnvironment(0)>>
    /\ environment = Globals

EnvNext ==
    \/ \E name \in Names, value \in Literals, isConst \in BOOLEAN :
          visitVarStmt(name, value, isConst)
    \/ \E name \in Names : visitVarStmt(name, Null, FALSE)
    \/ \E name \in Names, value \in Literals : visitAssignExpr(name, value)
    \/ \E name \in Names : visitVariableExpr(name)
    \/ visitBlockStmt
    \/ executeBlockEnd
    \/ \E name \in Names : declareFunction(name)
    \/ \E name \in Names, superName \in Names \cup {""} :
          /\ Len(envs) < MaxFrames
          /\ Len(classes) < MaxClasses
          /\ visitClassStmt(name, superName, {})
    \/ \E name \in Names, valueName \in Names : visitSetExpr(name, "superclass", valueName)

SpecEnv == EnvInit /\ [][EnvNext]_vars

\* C6: an assignment x = v whose name resolves, along the environment chain, to a const
\* binding raises "Cannot reassign const variable 'x'", and the binding holds afterwards
\* the value it held before.
C6_ConstAssignRejected ==
    lastAssign.isConst =>
        /\ lastAssign.error = ConstError(lastAssign.name)
        /\ lastAssign.after = lastAssign.before

\* The const binding was reached from a nested scope.
C6_Witness ==
    /\ lastAssign.isConst
    /\ lastAssign.nested
    /\ lastAssign.name = "x"
    /\ lastAssign.before = Num(1)
    /\ evalError = ConstError("x")

\* The superclass of class k (0: none).
SuperOf(cs, k) == IF cs[k].superclass.t = "class" THEN cs[k].superclass.id ELSE 0

\* The class d steps up the superclass chain of class k (0: the chain ended before).
RECURSIVE Ancestor(_, _, _)
Ancestor(cs, k, d) == IF d = 0 \/ k = 0 THEN k ELSE Ancestor(cs, SuperOf(cs, k), d - 1)

\* C8: the superclass chain of every class is acyclic: it ends within as many steps as
\* there are classes.
C8_SuperclassChainsAcyclic ==
    \A k \in 1..Len(classes) : Ancestor(classes, k, Len(classes)) = 0

\* C7: a binding made by const keeps its value in its frame, whatever statement is
\* executed next.
C7_ConstNeverChanges ==
    [][\A e \in DOMAIN envs : \A x \in DOMAIN envs[e].vals :
          envs[e].vals[x].isConst =>
              /\ x \in DOMAIN envs'[e].vals
              /\ envs'[e].vals[x].value = envs[e].vals[x].value]_vars


(***************************************************************************)
(* Classes, instances, this and super.                                     *)
(*                                                                         *)
(* The top level of the program declares the classes ClassNames, in this   *)
(* order, each with any earlier class or none as its superclass and any    *)
(* subset of MethodNames as its methods; it may declare the function       *)
(*     function m() { return v.n(); }    (v any instance variable, n any   *)
(*                                        method name)                     *)
(* and then creates instances (let v = new K();), stores the function m    *)
(* in a field (v.m = m;) and calls methods (v.n();) and m().               *)
(* Every method n of a class has the body                                  *)
(*     this;                                                               *)
(*     super.n();                   (only in a class with extends)         *)
(*     function inner() { this; }  inner();                                *)
(*     let obj = { f: function() { this; } };  obj.f();                    *)
(*                                                                         *)
(* A frame of callFrames is one call in progress: fn (the callee), kind    *)
(* ("method", "nested", "object", "plain"), self (the instance the         *)
(* enclosing method was called on; 0 outside a method), pc (the statement  *)
(* of the body that is next), previous (the environment to restore), key   *)
(* (the entry of moduleCallStack the call made), and the sizes of the      *)
(* heaps when the call started.  Environments and objects created by a     *)
(* call are referenced by nothing once it has returned; they are dropped   *)
(* from the heaps then, which no program can observe.                      *)
(***************************************************************************)
MaxInstances == 1   \* most ClouInstance objects created

ClassNames == <<"A", "B", "C">>
MethodNames == {"init", "m"}
InstanceNames == <<"o", "p", "q">>

PropertyError(name) == <<"Undefined property", name>>
NotAClassError(name) == <<"is not a class", name>>
StackOverflow == RuntimeError("Maximum call stack size exceeded")

\* ClouClass.findMethod.  The recursion of the code has no bound of its own; the host
\* ends one that is deeper than its stack with a RangeError.  A chain of more classes
\* than exist is a cycle, which no stack holds.
RECURSIVE findMethod(_, _, _, _)
findMethod(cs, k, name, fuel) ==
    IF name \in DOMAIN cs[k].methods THEN cs[k].methods[name]
    ELSE IF cs[k].superclass.t # "class" THEN Null
    ELSE IF fuel = 0 THEN StackOverflow
    ELSE findMethod(cs, cs[k].superclass.id, name, fuel - 1)

\* Mutant: the function is returned as it is, bound to nothing new.
bind_unbound(fn, instance) == fn

\* ClouFunction.bind
bind(fn, instance) == [fn EXCEPT !.boundThis = instance]

\* ClouInstance.get: a field first, then a method of the class chain, bound.
InstanceGet(cs, is, o, name) ==
    IF name \in DOMAIN is[o].fields THEN is[o].fields[name]
    ELSE LET method == findMethod(cs, is[o].klass, name, Len(cs))
         IN  IF method.t = "fn" THEN bind(method, InstRef(o)) ELSE method

\* What no step of this part touches.
ClassOnly ==
    /\ UNCHANGED <<files, requireCache, loading, topCount, lastResult, lastError, requireLog,
                   program, funcs, mainPc, mainResult, out, callLog, scopes, lastAssign,
                   arrays, parseVars>>
    /\ lastData' = NoData

\* Whether the class the method was declared in has an extends clause: its methods
\* close over the class environment, which defines super.
HasSuper(fn) == "super" \in DOMAIN envs[fn.closure].vals

FirstPc(kind) == IF kind = "plain" THEN "call" ELSE "this"

NextPc(frame) ==
    IF frame.kind = "method"
    THEN CASE frame.pc = "this" -> IF HasSuper(frame.fn) THEN "super" ELSE "nested"
           [] frame.pc = "super" -> "nested"
           [] frame.pc = "nested" -> "object"
           [] OTHER -> "return"
    ELSE "return"

\* The call stack once the expression at hand has its value.
Advanced ==
    IF callFrames = <<>> THEN callFrames
    ELSE [callFrames EXCEPT ![Len(callFrames)].pc = NextPc(TopFrame)]

At(pc) == callFrames # <<>> /\ TopFrame.pc = pc

\* An expression that calls nothing got its value.
Evaluated ==
    /\ callFrames' = Advanced
    /\ evalError' = NoError
    /\ UNCHANGED <<objects, moduleCallStack, instances, envs, environment>>

\* A runtime error leaves every call in progress: each finally clause of
\* visitCallExpr and executeBlock restores the environment and deletes its entry of
\* moduleCallStack.  An instance under construction is never bound to its variable.
Raise(error) ==
    /\ evalError' = error
    /\ callFrames' = <<>>
    /\ moduleCallStack' = {}
    /\ IF callFrames = <<>>
       THEN UNCHANGED <<objects, instances, envs, environment>>
       ELSE /\ environment' = callFrames[1].previous
            /\ envs' = SubSeq(envs, 1, callFrames[1].envBase)
            /\ objects' = SubSeq(objects, 1, callFrames[1].objBase)
            /\ instances' = SubSeq(instances, 1, callFrames[1].instBase)

\* Whether visitCallExpr takes its re-entry branch for the callee.
Suppressed(callee, viaCall) == viaCall /\ InCallStack(moduleCallStack, callee)

\* The callee is called, from a Call expression (viaCall: visitCallExpr, lines 391-426,
\* which makes an environment of its own, then ClouFunction.call) or from new
\* (ClouFunction.call alone), with es, objs, is the heaps at the time of the call and
\* bindTo the variable that a let statement defines with the result ("": none).
Invoke(es, objs, is, callee, kind, self, viaCall, bindTo) ==
    /\ evalError' = NoError
    /\ instances' = is
    /\ objects' = objs
    /\ IF Suppressed(callee, viaCall)
       THEN /\ callFrames' = Advanced
            /\ envs' = es
            /\ UNCHANGED <<moduleCallStack, environment>>
       ELSE LET made == IF viaCall THEN 2 ELSE 1
                withThis(heap, e) == IF callee.boundThis.t = "null" THEN heap
                                     ELSE EnvDefine(heap, e, "this", callee.boundThis, FALSE)
                key == IF viaCall THEN {<<callee.closure, functionKey(callee)>>} ELSE {}
            IN  /\ envs' = withThis(
                              withThis(es \o [i \in 1..made |-> NewEnvironment(callee.closure)],
                                       Len(es) + 1),
                              Len(es) + made)
                /\ environment' = Len(es) + made
                /\ moduleCallStack' = moduleCallStack \cup key
                /\ callFrames' = Append(Advanced,
                       [fn |-> callee, kind |-> kind, self |-> self, pc |-> FirstPc(kind),
                        previous |-> environment, key |-> key, envBase |-> Len(es),
                        objBase |-> Len(objs), instBase |-> Len(instances),
                        bindTo |-> bindTo])

Outcome(callee, viaCall) == IF Suppressed(callee, viaCall) THEN "suppressed" ELSE "entered"

TopLevel == callFrames = <<>>

\* let varName = new className();
visitNewExpr(varName, className) ==
    /\ ClassOnly
    /\ TopLevel
    /\ Len(instances) < MaxInstances
    /\ varName = InstanceNames[Len(instances) + 1]
    /\ UNCHANGED classes
    /\ LET classValue == EnvGet(envs, environment, className)
           o == Len(instances) + 1
           created == Append(instances, ClouInstance(classValue.id))
           initializer == findMethod(classes, classValue.id, "init", Len(classes))
       IN  IF classValue.t = "error"
           THEN Raise(UndefinedError(className)) /\ lastEval' = NoEval
           ELSE IF classValue.t # "class"
           THEN Raise(NotAClassError(className)) /\ lastEval' = NoEval
           ELSE IF initializer.t = "error"
           THEN Raise(<<initializer.message>>) /\ lastEval' = NoEval
           ELSE IF initializer.t = "null"
           THEN /\ instances' = created
                /\ envs' = EnvDefine(envs, environment, varName, InstRef(o), FALSE)
                /\ evalError' = NoError
                /\ lastEval' = NoEval
                /\ UNCHANGED <<objects, callFrames, moduleCallStack, environment>>
           ELSE /\ Invoke(envs, objects, created, bind(initializer, InstRef(o)),
                          "method", o, FALSE, varName)
                /\ lastEval' = [NoEval EXCEPT !.op = "new", !.target = o, !.name = "init",
                                              !.outcome = "entered",
                                              !.decl = initializer.decl,
                                              !.this = InstRef(o)]

\* varName.name();  visitGetExpr on an instance, then visitCallExpr.
methodCall(varName, name) ==
    /\ ClassOnly
    /\ TopLevel \/ At("call")
    /\ UNCHANGED classes
    /\ LET object == EnvGet(envs, environment, varName)
           callee == InstanceGet(classes, instances, object.id, name)
           isMethod == callee.boundThis.t = "inst"
       IN  IF object.t = "error"
           THEN Raise(UndefinedError(varName)) /\ lastEval' = NoEval
           ELSE IF callee.t = "null"
           THEN Raise(PropertyError(name)) /\ lastEval' = NoEval
           ELSE IF callee.t = "error"
           THEN Raise(<<callee.message>>) /\ lastEval' = NoEval
           ELSE /\ Invoke(envs, objects, instances, callee,
                          IF isMethod THEN "method" ELSE "plain",
                          IF isMethod THEN object.id ELSE 0, TRUE, "")
                /\ lastEval' = [NoEval EXCEPT !.op = "call", !.target = object.id,
                                              !.name = name,
                                              !.shadowed = name \in DOMAIN
                                                              instances[object.id].fields,
                                              !.outcome = Outcome(callee, TRUE),
                                              !.decl = callee.decl,
                                              !.this = callee.boundThis]

\* name();  a call of the function declared at the top level.
functionCall(name) ==
    /\ ClassOnly
    /\ TopLevel
    /\ instances # <<>>
    /\ UNCHANGED classes
    /\ lastEval' = NoEval
    /\ LET callee == EnvGet(envs, environment, name)
       IN  IF callee.t = "error" THEN Raise(UndefinedError(name))
           ELSE Invoke(envs, objects, instances, callee, "plain", 0, TRUE, "")

\* this
visitThisExpr ==
    /\ ClassOnly
    /\ At("this")
    /\ UNCHANGED classes
    /\ LET value == EnvGet(envs, environment, "this")
       IN  /\ lastEval' = [NoEval EXCEPT !.op = "this", !.this = value,
                                         !.kind = TopFrame.kind, !.self = TopFrame.self]
           /\ IF value.t = "error" THEN Raise(UndefinedError("this")) ELSE Evaluated

\* super.name();  visitSuperExpr, then visitCallExpr.  In a method body name is the
\* name of the method the statement stands in; the statement also stands at the
\* top level of the program, where no environment binds super.
visitSuperExpr(name) ==
    /\ ClassOnly
    /\ TopLevel \/ At("super")
    /\ UNCHANGED classes
    /\ LET superclass == EnvGet(envs, environment, "super")
           instance == EnvGet(envs, environment, "this")
           method == findMethod(classes, superclass.id, name, Len(classes))
           callee == bind(method, instance)
       IN  IF superclass.t = "error"
           THEN /\ Raise(UndefinedError("super"))
                /\ lastEval' = [NoEval EXCEPT !.op = "superUnbound", !.name = name,
                                              !.outcome = "raised"]
           ELSE IF method.t = "null"
           THEN Raise(PropertyError(name)) /\ lastEval' = NoEval
           ELSE IF method.t = "error"
           THEN Raise(<<method.message>>) /\ lastEval' = NoEval
           ELSE /\ Invoke(envs, objects, instances, callee, "method", TopFrame.self, TRUE, "")
                /\ lastEval' = [NoEval EXCEPT !.op = "super", !.name = name,
                                              !.from = TopFrame.fn.decl.place,
                                              !.self = TopFrame.self,
                                              !.outcome = Outcome(callee, TRUE),
                                              !.decl = method.decl,
                                              !.this = callee.boundThis]

\* function inner() { this; }  inner();
nestedCall ==
    /\ ClassOnly
    /\ At("nested")
    /\ UNCHANGED classes
    /\ lastEval' = NoEval
    /\ LET inner == ClouFunction(Declaration("", "inner"), environment, FALSE, Null)
       IN  Invoke(EnvDefine(envs, environment, "inner", inner, FALSE), objects, instances,
                  inner, "nested", TopFrame.self, TRUE, "")

\* let obj = { f: function() { this; } };  obj.f();
\* visitGetExpr on a plain object binds a function it finds to that object
\* (lines 454-456).
objectCall ==
    /\ ClassOnly
    /\ At("object")
    /\ UNCHANGED classes
    /\ lastEval' = NoEval
    /\ LET f == ClouFunction(Declaration("", "anonymous"), environment, FALSE, Null)
           obj == ObjRef(Len(objects) + 1)
       IN  Invoke(EnvDefine(envs, environment, "obj", obj, FALSE),
                  Append(objects, <<<<"f", f>>>>), instances,
                  bind(f, obj), "object", TopFrame.self, TRUE, "")

\* The ways a function body ends: it falls off its end, executes `return;`, or
\* executes `return v;` (v is the number 1 here).
Endings == {"end", "return", "returnValue"}

\* ClouFunction.call, after the body: an initializer answers the instance it is
\* bound to whatever the body returned; any other function answers the returned
\* value, or null when the body fell off its end or returned nothing.
CallResult(fn, ending) ==
    IF fn.isInitializer THEN fn.boundThis
    ELSE IF ending = "returnValue" THEN Num(1)
    ELSE Null

\* The body of the running function ends: ClouFunction.call restores the
\* environment and answers CallResult; the finally clause of visitCallExpr
\* removes the key from moduleCallStack; visitNewExpr discards the answer and
\* (lines 427-434) yields the instance, which the let statement binds.
functionEnd(ending) ==
    /\ ClassOnly
    /\ At("return")
    /\ callFrames' = SubSeq(callFrames, 1, Len(callFrames) - 1)
    /\ environment' = TopFrame.previous
    /\ moduleCallStack' = moduleCallStack \ TopFrame.key
    /\ envs' = IF TopFrame.bindTo = "" THEN SubSeq(envs, 1, TopFrame.envBase)
               ELSE EnvDefine(SubSeq(envs, 1, TopFrame.envBase), TopFrame.previous,
                              TopFrame.bindTo, InstRef(TopFrame.self), FALSE)
    /\ objects' = SubSeq(objects, 1, TopFrame.objBase)
    /\ lastEval' = [NoEval EXCEPT !.op = "return", !.decl = TopFrame.fn.decl,
                                  !.kind = TopFrame.kind, !.self = TopFrame.self,
                                  !.this = TopFrame.fn.boundThis,
                                  !.outcome = IF TopFrame.bindTo = "" THEN "call" ELSE "new",
                                  !.value = IF TopFrame.bindTo = ""
                                            THEN CallResult(TopFrame.fn, ending)
                                            ELSE InstRef(TopFrame.self)]
    /\ UNCHANGED <<classes, instances, evalError>>

ClassInit ==
    /\ ModIdle
    /\ CallIdle
    /\ envs = <<NewEnvironment(0)>>
    /\ environment = Globals

DeclaredNames == {ClassNames[i] : i \in 1..Len(classes)}
BoundNames == {InstanceNames[i] : i \in 1..Len(instances)}

ClassNext ==
    \/ \E superName \in DeclaredNames \cup {""}, methodNames \in SUBSET MethodNames :
          /\ TopLevel
          /\ Len(classes) < Len(ClassNames)
          /\ visitClassStmt(ClassNames[Len(classes) + 1], superName, methodNames)
    \/ TopLevel /\ declareFunction("m")
    \/ \E varName \in BoundNames : TopLevel /\ visitSetExpr(varName, "m", "m")
    \/ \E className \in DeclaredNames : visitNewExpr(InstanceNames[Len(instances) + 1], className)
    \/ \E varName \in BoundNames, name \in MethodNames : methodCall(varName, name)
    \/ functionCall("m")
    \/ visitThisExpr
    \/ \E name \in MethodNames :
          /\ IF TopLevel THEN TRUE ELSE name = TopFrame.fn.decl.name
          /\ visitSuperExpr(name)
    \/ nestedCall
    \/ objectCall
    \/ \E ending \in Endings : functionEnd(ending)

SpecClasses == ClassInit /\ [][ClassNext]_vars

\* The distances from class k, up its superclass chain, of the classes that define
\* the method.
DefinersAt(cs, k, name) ==
    {d \in 0..Len(cs) : Ancestor(cs, k, d) # 0
                        /\ name \in DOMAIN cs[Ancestor(cs, k, d)].methods}

\* The nearest class of the chain of k that defines the method.
NearestDefiner(cs, k, name) ==
    Ancestor(cs, k, CHOOSE d \in DefinersAt(cs, k, name) :
                       \A e \in DefinersAt(cs, k, name) : d <= e)

\* The declaration of method name in the class statement of class k.
MethodOf(cs, k, name) == Declaration(cs[k].name, name)

ClassNamed(cs, name) == CHOOSE k \in 1..Len(cs) : cs[k].name = name

C10_SuperInvokesParentMethod ==
    lastEval.op = "super" =>
        LET P == SuperOf(classes, ClassNamed(classes, lastEval.from)) IN
        /\ lastEval.outcome = "entered"
        /\ lastEval.decl = MethodOf(classes, NearestDefiner(classes, P, lastEval.name),
                                    lastEval.name)
        /\ lastEval.this = InstRef(lastEval.self)
        /\ TopFrame.fn.decl = lastEval.decl
        /\ EnvGet(envs, environment, "this") = InstRef(lastEval.self)


\* C11: every call of an init method bound to an instance o, whether made by new,
\* by o.init() or by super.init(), and however its body ends, has o as its
\* value.
C11_InitReturnsInstance ==
    (lastEval.op = "return" /\ lastEval.decl.name = "init" /\ lastEval.this.t = "inst")
        => lastEval.value = lastEval.this


(***************************************************************************)
(* Arrays, plain objects and len (interpreter.ts, lines 66-77 and          *)
(* 441-672).  The program is                                               *)
(*     let n = 1;  let s = "ab";  let z = null;                            *)
(*     let a = [ ... ];  let o = { ... };                                  *)
(* followed by any sequence of the expression statements                   *)
(*     x[i] = v;   x[i];   x.k = v;   x.k;   len(x);                       *)
(* over these five variables.  An array is a JavaScript array: a slot that *)
(* no write has filled is a hole, which reads as undefined.                *)
(***************************************************************************)
MaxLen == 3     \* longest array

Undefined == [t |-> "undefined"]
ArrRef(id) == [t |-> "arr", id |-> id]
Native(name) == [t |-> "native", name |-> name]

IndexError == <<"Array index out of bounds.">>
StringIndexError == <<"String index out of bounds.">>
NotFoundError == <<"Object property not found.">>
IndexTargetError == <<"Cannot index into class, function, or instance directly.">>
NotIndexableError == <<"Only arrays, strings, and objects are indexable.">>
AssignTargetError == <<"Cannot assign to class, function, or instance directly.">>
NotAssignableError == <<"Only arrays and objects are indexable for assignment.">>
PropertiesError == <<"Only instances and objects have properties.">>
LenError == <<"len() requires array, string, or object argument">>

\* The characters of a string value as a property key.
RECURSIVE Lexeme(_)
Lexeme(chars) == IF chars = <<>> THEN "" ELSE chars[1] \o Lexeme(Tail(chars))

\* The property names of the program, and their characters as string values.
PropertyNames == {"k", "toString"}
NameChars == [k |-> <<"k">>, toString |-> <<"t", "o", "S", "t", "r", "i", "n", "g">>]

\* The members every plain object inherits from Object.prototype.
ObjectPrototype ==
    {"constructor", "hasOwnProperty", "isPrototypeOf", "propertyIsEnumerable",
     "toLocaleString", "toString", "valueOf", "__proto__",
     "__defineGetter__", "__defineSetter__", "__lookupGetter__", "__lookupSetter__"}

\* object[index] = value on a JavaScript array: a write past the end extends the
\* array and leaves the slots in between as holes.
ArrayPut_dropped(a, index, value) ==
    IF index < Len(a) THEN [a EXCEPT ![index + 1] = value] ELSE a
ArrayPut(a, index, value) ==
    IF index < Len(a) THEN [a EXCEPT ![index + 1] = value]
    ELSE a \o [i \in 1..(index - Len(a)) |-> Undefined] \o <<value>>

\* obj[key] on a plain JavaScript object: an own property, else an inherited one,
\* else undefined.
OwnProperty(o, key) == (CHOOSE i \in 1..Len(o) : o[i][1] = key)
JsGet(o, key) ==
    IF key \in ObjKeys(o) THEN o[OwnProperty(o, key)][2]
    ELSE IF key \in ObjectPrototype THEN Native(key)
    ELSE Undefined

\* The key visitIndexExpr and visitIndexAssignExpr use on a plain object.
KeyOf(index) == Lexeme(StringOf(index))

DataOnly ==
    UNCHANGED <<files, requireCache, loading, topCount, lastResult, lastError, requireLog,
                callVars, classes, instances, lastAssign, lastEval, parseVars>>

\* let name = [elements];
visitArrayExpr(name, elements) ==
    /\ DataOnly
    /\ arrays' = Append(arrays, elements)
    /\ envs' = EnvDefine(envs, environment, name, ArrRef(Len(arrays) + 1), FALSE)
    /\ Complete(NoError)
    /\ lastData' = NoData
    /\ UNCHANGED objects

\* let name = { key: value, ... };  with properties a sequence of <<key, value>>.
visitObjectExpr(name, properties) ==
    /\ DataOnly
    /\ objects' = Append(objects, properties)
    /\ envs' = EnvDefine(envs, environment, name, ObjRef(Len(objects) + 1), FALSE)
    /\ Complete(NoError)
    /\ lastData' = NoData
    /\ UNCHANGED arrays

\* objectName[index] = valueName;
visitIndexAssignExpr(objectName, index, valueName) ==
    /\ DataOnly
    /\ LET object == EnvGet(envs, environment, objectName)
           value == EnvGet(envs, environment, valueName)
           error == IF object.t = "arr"
                    THEN IF index.t # "num" \/ index.n < 0 THEN IndexError ELSE NoError
                    ELSE IF object.t \in {"inst", "class", "fn"} THEN AssignTargetError
                    ELSE IF object.t = "obj" THEN NoError
                    ELSE NotAssignableError
           stored == error = NoError
       IN  /\ Complete(error)
           /\ arrays' = IF stored /\ object.t = "arr"
                        THEN [arrays EXCEPT ![object.id] = ArrayPut(@, index.n, value)]
                        ELSE arrays
           /\ objects' = IF stored /\ object.t = "obj"
                         THEN [objects EXCEPT ![object.id] = ObjSet(@, KeyOf(index), value)]
                         ELSE objects
           /\ lastData' = [NoData EXCEPT !.op = "indexAssign", !.kind = object.t,
                                         !.target = IdOf(object), !.index = index,
                                         !.value = IF stored THEN value ELSE Null,
                                         !.outcome = IF stored THEN "stored" ELSE "raised",
                                         !.length = IF object.t = "arr"
                                                    THEN Len(arrays[object.id]) ELSE 0]
    /\ UNCHANGED envs

\* The value or the error of an expression, as [value, error].
Returns(value) == [value |-> value, error |-> NoError]
Throws(error) == [value |-> Null, error |-> error]

\* What visitIndexExpr answers for object[index].
IndexOf(as, os, object, index) ==
    IF object.t = "arr"
    THEN IF index.t # "num" \/ index.n < 0 \/ index.n >= Len(as[object.id])
         THEN Throws(IndexError)
         ELSE IF as[object.id][index.n + 1] = Undefined THEN Throws(IndexError)
         ELSE Returns(as[object.id][index.n + 1])
    ELSE IF object.t = "str"
    THEN IF index.t # "num" \/ index.n < 0 \/ index.n >= Len(object.s)
         THEN Throws(StringIndexError)
         ELSE Returns(Str(<<object.s[index.n + 1]>>))
    ELSE IF object.t \in {"inst", "class", "fn"} THEN Throws(IndexTargetError)
    ELSE IF object.t = "obj"
    THEN IF JsGet(os[object.id], KeyOf(index)) = Undefined THEN Throws(NotFoundError)
         ELSE Returns(JsGet(os[object.id], KeyOf(index)))
    ELSE Throws(NotIndexableError)

\* What visitGetExpr answers for object.name.
PropertyOf(cs, is, as, os, object, name) ==
    IF object.t = "inst" THEN Returns(InstanceGet(cs, is, object.id, name))
    ELSE IF object.t = "obj"
    THEN IF JsGet(os[object.id], name) = Undefined THEN Returns(Str(NameChars[name]))
         ELSE IF JsGet(os[object.id], name).t = "fn"
         THEN Returns(bind(JsGet(os[object.id], name), object))
         ELSE Returns(JsGet(os[object.id], name))
    ELSE IF object.t = "arr"
    THEN IF name = "length" THEN Returns(Num(Len(as[object.id])))
         ELSE IF name \in ObjectPrototype THEN Returns(Native(name))
         ELSE Returns(Str(NameChars[name]))
    ELSE IF object.t \in {"class", "fn"}
    THEN IF name \in ObjectPrototype THEN Returns(Native(name))
         ELSE Returns(Str(NameChars[name]))
    ELSE IF object.t = "str" /\ name \in {"includes", "split", "slice"}
    THEN Returns(Native(name))
    ELSE IF object.t = "str" /\ name = "length" THEN Returns(Num(Len(object.s)))
    ELSE IF object.t = "num" /\ name = "toFixed" THEN Returns(Native(name))
    ELSE Throws(PropertiesError)

\* What the native function len answers for obj.  No value of the language is a
\* JavaScript Map, so the third test of the function never succeeds.
LenOf(as, obj) ==
    IF obj.t = "arr" THEN Returns(Num(Len(as[obj.id])))
    ELSE IF obj.t = "str" THEN Returns(Num(Len(obj.s)))
    ELSE Throws(LenError)

\* An expression statement that writes nothing: its answer is recorded.
Answer(op, object, name, index, answer) ==
    /\ DataOnly
    /\ Complete(answer.error)
    /\ lastData' = [NoData EXCEPT !.op = op, !.kind = object.t, !.target = IdOf(object),
                                  !.name = name, !.index = index, !.value = answer.value,
                                  !.outcome = IF answer.error = NoError THEN "value"
                                              ELSE "raised"]
    /\ UNCHANGED <<envs, objects, arrays>>

\* objectName[index];
visitIndexExpr(objectName, index) ==
    LET object == EnvGet(envs, environment, objectName)
    IN  Answer("index", object, "", index, IndexOf(arrays, objects, object, index))

\* objectName.name;
visitGetExpr(objectName, name) ==
    LET object == EnvGet(envs, environment, objectName)
    IN  Answer("get", object, name, Null,
               PropertyOf(classes, instances, arrays, objects, object, name))

\* len(objectName);
len(objectName) ==
    LET object == EnvGet(envs, environment, objectName)
    IN  Answer("len", object, "", Null, LenOf(arrays, object))

\* The let statements the program starts with.
DataLets == <<<<"n", Num(1)>>, <<"s", Str(<<"a", "b">>)>>, <<"z", Null>>>>
DataNames == {"n", "s", "z", "a", "o"}
ValueNames == {"n", "z"}
Elements == {Num(1), Null}
Indexes == {Num(i) : i \in (0 - 1)..MaxLen} \cup {Str(<<"k">>)}

\* The index expressions the program applies to a variable: numbers index the
\* array and the string, the key "k" indexes every variable.
IndexesOf(objectName) ==
    IF objectName \in {"a", "s"} THEN Indexes ELSE {Str(<<"k">>)}

\* How many of the program's let statements have run.
Declared == Cardinality(DOMAIN envs[Globals].vals)

DataInit ==
    /\ ModIdle
    /\ CallIdle
    /\ envs = <<NewEnvironment(0)>>
    /\ environment = Globals

DataNext ==
    \/ /\ Declared < Len(DataLets)
       /\ visitVarStmt(DataLets[Declared + 1][1], DataLets[Declared + 1][2], FALSE)
    \/ \E elements \in SeqsUpTo(Elements, 2) :
          Declared = Len(DataLets) /\ visitArrayExpr("a", elements)
    \/ \E properties \in SeqsUpTo({<<"k", Num(1)>>}, 1) :
          Declared = Len(DataLets) + 1 /\ visitObjectExpr("o", properties)
    \/ \E objectName \in DataNames, valueName \in ValueNames :
          \E index \in IndexesOf(objectName) :
             /\ Declared = Cardinality(DataNames)
             /\ index.t = "num" => index.n < MaxLen
             /\ visitIndexAssignExpr(objectName, index, valueName)
    \/ \E objectName \in DataNames :
          \E index \in IndexesOf(objectName) :
             Declared = Cardinality(DataNames) /\ visitIndexExpr(objectName, index)
    \/ \E objectName \in DataNames, name \in PropertyNames, valueName \in ValueNames :
          Declared = Cardinality(DataNames) /\ visitSetExpr(objectName, name, valueName)
    \/ \E objectName \in DataNames, name \in PropertyNames :
          Declared = Cardinality(DataNames) /\ visitGetExpr(objectName, name)
    \/ \E objectName \in DataNames :
          Declared = Cardinality(DataNames) /\ len(objectName)

SpecData == DataInit /\ [][DataNext]_vars

C13_GapSlotsReadNull ==
    (/\ lastData.op = "index" /\ lastData.kind = "arr" /\ lastData.index.t = "num"
     /\ lastData.index.n >= 0 /\ lastData.index.n < Len(arrays[lastData.target])
     /\ arrays[lastData.target][lastData.index.n + 1] = Undefined)
        => (evalError = NoError /\ lastData.outcome = "value" /\ lastData.value = Null)


\* C14: obj.name on a plain object answers the stored value when the property has
\* been assigned, and the string name itself for every key never assigned.
C14_GetStoredOrName ==
    (lastData.op = "get" /\ lastData.kind = "obj")
        => /\ evalError = NoError
           /\ lastData.value =
                 IF lastData.name \in ObjKeys(objects[lastData.target])
                 THEN objects[lastData.target][OwnProperty(objects[lastData.target],
                                                           lastData.name)][2]
                 ELSE Str(NameChars[lastData.name])


\* C15: target.name = v with a target that is neither an instance nor a plain
\* object (a class, a function, an array, a number, a string, null) raises a
\* runtime error.
C15_SetOnOtherTargetRaises ==
    (lastData.op = "set" /\ lastData.kind \notin {"inst", "obj"})
        => (lastData.outcome = "raised" /\ evalError = FieldsError)


(***************************************************************************)
(* The parser (ast-nodes.ts, class Parser), for programs of expression     *)
(* statements over the tokens                                              *)
(*     NUMBER  IDENTIFIER  (  )  .  [  ]  =  ;  EOF                        *)
(* With no operator token in a program, each level of the expression       *)
(* grammar between assignment and call hands on what the next level        *)
(* parsed.  A parsing method answers [expr, current, error]: the node it   *)
(* built and the parser's position after it, or the message of the Error   *)
(* it threw.  Every token is on line 1.                                    *)
(***************************************************************************)
Token(type, lexeme) == [type |-> type, lexeme |-> lexeme]

Literal(value) == [node |-> "Literal", value |-> value]
Variable(name) == [node |-> "Variable", name |-> name]
Call(callee, args) == [node |-> "Call", callee |-> callee, args |-> args]
Get(object, name) == [node |-> "Get", object |-> object, name |-> name]
Index(object, index) == [node |-> "Index", object |-> object, index |-> index]
Assign(name, value) == [node |-> "Assign", name |-> name, value |-> value]
Set(object, name, value) ==
    [node |-> "Set", object |-> object, name |-> name, value |-> value]
IndexAssign(object, index, value) ==
    [node |-> "IndexAssign", object |-> object, index |-> index, value |-> value]
Expression(expr) == [node |-> "Expression", expr |-> expr]

Parsed(expr, current) == [expr |-> expr, current |-> current, error |-> ""]

\* Parser.error: the Error object for a message; `throw this.error(...)` throws it.
error(current, message) ==
    [expr |-> [node |-> "none"], current |-> current, error |-> "[Line 1] " \o message]

peek(ts, current) == ts[current + 1]
check(ts, current, type) ==
    peek(ts, current).type # "EOF" /\ peek(ts, current).type = type

primary(ts, current) ==
    IF check(ts, current, "NUMBER")
    THEN Parsed(Literal(peek(ts, current).lexeme), current + 1)
    ELSE IF check(ts, current, "IDENTIFIER")
    THEN Parsed(Variable(peek(ts, current).lexeme), current + 1)
    ELSE error(current, "Expect expression.")

RECURSIVE assignment(_, _)
RECURSIVE postfix(_, _, _)

expression(ts, current) == assignment(ts, current)

\* finishCall, entered after the opening parenthesis (programs have no comma and
\* no callee named new).
finishCall(ts, callee, current) ==
    IF check(ts, current, "RIGHT_PAREN") THEN Parsed(Call(callee, <<>>), current + 1)
    ELSE LET arg == expression(ts, current)
         IN  IF arg.error # "" THEN arg
             ELSE IF check(ts, arg.current, "RIGHT_PAREN")
             THEN Parsed(Call(callee, <<arg.expr>>), arg.current + 1)
             ELSE error(arg.current, "Expect ')' after arguments.")

\* The loop of call(): calls, property accesses and index expressions after expr.
postfix(ts, expr, current) ==
    IF check(ts, current, "LEFT_PAREN")
    THEN LET called == finishCall(ts, expr, current + 1)
         IN  IF called.error # "" THEN called
             ELSE postfix(ts, called.expr, called.current)
    ELSE IF check(ts, current, "DOT")
    THEN IF check(ts, current + 1, "IDENTIFIER")
         THEN postfix(ts, Get(expr, peek(ts, current + 1).lexeme), current + 2)
         ELSE error(current + 1, "Expect property name after '.'.")
    ELSE IF check(ts, current, "LEFT_BRACKET")
    THEN LET index == expression(ts, current + 1)
         IN  IF index.error # "" THEN index
             ELSE IF check(ts, index.current, "RIGHT_BRACKET")
             THEN postfix(ts, Index(expr, index.expr), index.current + 1)
             ELSE error(index.current, "Expect ']' after index.")
    ELSE Parsed(expr, current)

call(ts, current) ==
    LET first == primary(ts, current)
    IN  IF first.error # "" THEN first ELSE postfix(ts, first.expr, first.current)

Binary(left, operator, right) ==
    [node |-> "Binary", left |-> left, operator |-> operator, right |-> right]
Unary(operator, right) == [node |-> "Unary", operator |-> operator, right |-> right]

RECURSIVE unary(_, _)

\* The one element of a set of one element.  In  Only({e(x) : x \in {v}})  the
\* value v is computed once, however often e refers to x.
Only(S) == CHOOSE x \in S : TRUE

\* The right operand of ^ in Parser.power (line 904).
PowerRight_call(ts, current) == call(ts, current)
PowerRight(ts, current) == unary(ts, current)

\* The loop of Parser.power after its left operand.
RECURSIVE powerLoop(_, _, _)
powerLoop(ts, expr, current) ==
    IF check(ts, current, "POWER")
    THEN Only({IF right.error # "" THEN right
               ELSE powerLoop(ts, Binary(expr, peek(ts, current).lexeme, right.expr),
                              right.current) :
               right \in {PowerRight(ts, current + 1)}})
    ELSE Parsed(expr, current)

power(ts, current) ==
    Only({IF first.error # "" THEN first ELSE powerLoop(ts, first.expr, first.current) :
          first \in {call(ts, current)}})

unary(ts, current) ==
    IF check(ts, current, "NOT") \/ check(ts, current, "MINUS")
    THEN Only({IF right.error # "" THEN right
               ELSE Parsed(Unary(peek(ts, current).lexeme, right.expr), right.current) :
               right \in {unary(ts, current + 1)}})
    ELSE power(ts, current)

\* The loop of Parser.factor after its left operand.
RECURSIVE factorLoop(_, _, _)
factorLoop(ts, expr, current) ==
    IF \/ check(ts, current, "MULTIPLY")
       \/ check(ts, current, "DIVIDE")
       \/ check(ts, current, "MODULO")
    THEN Only({IF right.error # "" THEN right
               ELSE factorLoop(ts, Binary(expr, peek(ts, current).lexeme, right.expr),
                               right.current) :
               right \in {unary(ts, current + 1)}})
    ELSE Parsed(expr, current)

factor(ts, current) ==
    Only({IF first.error # "" THEN first ELSE factorLoop(ts, first.expr, first.current) :
          first \in {unary(ts, current)}})

\* The loop of Parser.term after its left operand.
RECURSIVE termLoop(_, _, _)
termLoop(ts, expr, current) ==
    IF check(ts, current, "PLUS") \/ check(ts, current, "MINUS")
    THEN Only({IF right.error # "" THEN right
               ELSE termLoop(ts, Binary(expr, peek(ts, current).lexeme, right.expr),
                             right.current) :
               right \in {factor(ts, current + 1)}})
    ELSE Parsed(expr, current)

\* Parser.term.  The levels between assignment and term (logicalOr, logicalAnd,
\* equality, comparison) pass the expression of term on for programs without
\* their operators.
term(ts, current) ==
    Only({IF first.error # "" THEN first ELSE termLoop(ts, first.expr, first.current) :
          first \in {factor(ts, current)}})

\* The node Parser.assignment returns for the left side expr and the right side
\* value.  For a left side that is no Variable, Get or Index the method builds the
\* Error of Parser.error and drops it: nothing is thrown, and the left side is
\* returned with the right side already consumed.
assignmentNode(expr, value) ==
    IF value.error # "" THEN value
    ELSE IF expr.expr.node = "Variable"
    THEN Parsed(Assign(expr.expr.name, value.expr), value.current)
    ELSE IF expr.expr.node = "Get"
    THEN Parsed(Set(expr.expr.object, expr.expr.name, value.expr), value.current)
    ELSE IF expr.expr.node = "Index"
    THEN Parsed(IndexAssign(expr.expr.object, expr.expr.index, value.expr), value.current)
    ELSE Parsed(expr.expr, value.current)

\* Parser.assignment.
assignment(ts, current) ==
    Only({IF expr.error # "" THEN expr
          ELSE IF check(ts, expr.current, "ASSIGN")
          THEN Only({assignmentNode(expr, value) :
                     value \in {assignment(ts, expr.current + 1)}})
          ELSE expr :
          expr \in {term(ts, current)}})

expressionStatement(ts, current) ==
    LET expr == expression(ts, current)
    IN  IF expr.error # "" THEN expr
        ELSE IF check(ts, expr.current, "SEMICOLON")
        THEN Parsed(Expression(expr.expr), expr.current + 1)
        ELSE error(expr.current, "Expect ';' after expression.")

\* The loop of Parser.parse from a position on: an Error thrown by a statement
\* leaves parse() without a result.
RECURSIVE statementsFrom(_, _, _)
statementsFrom(ts, current, statements) ==
    IF peek(ts, current).type = "EOF" THEN [ast |-> statements, error |-> ""]
    ELSE LET statement == expressionStatement(ts, current)
         IN  IF statement.error # "" THEN [ast |-> <<>>, error |-> statement.error]
             ELSE statementsFrom(ts, statement.current,
                                 Append(statements, statement.expr))

ParseOnly == UNCHANGED <<modVars, callVars, stmtVars, envVars>>

\* new Parser(source)
Parser(source) ==
    /\ ParseOnly
    /\ tokens = <<>>
    /\ tokens' = source
    /\ UNCHANGED <<ast, parseError>>

\* Parser.parse()
parse ==
    /\ ParseOnly
    /\ tokens # <<>>
    /\ ast = <<>> /\ parseError = ""
    /\ ast' = statementsFrom(tokens, 0, <<>>).ast
    /\ parseError' = statementsFrom(tokens, 0, <<>>).error
    /\ UNCHANGED tokens

\* The programs:  e;   e = e;   e = e = e;  with e one of  1  x  f()  o.k  a[0],
\* and the same without the semicolon or without the right side.
Operands ==
    { <<Token("NUMBER", "1")>>,
      <<Token("IDENTIFIER", "x")>>,
      <<Token("IDENTIFIER", "f"), Token("LEFT_PAREN", "("), Token("RIGHT_PAREN", ")")>>,
      <<Token("IDENTIFIER", "o"), Token("DOT", "."), Token("IDENTIFIER", "k")>>,
      <<Token("IDENTIFIER", "a"), Token("LEFT_BRACKET", "["), Token("NUMBER", "0"),
        Token("RIGHT_BRACKET", "]")>> }
Equals == <<Token("ASSIGN", "=")>>
Semicolon == <<Token("SEMICOLON", ";")>>
Eof == <<Token("EOF", "")>>
Assignments ==
    {l \o Equals \o r : l, r \in Operands}
        \cup {l \o Equals \o m \o Equals \o r : l, m, r \in Operands}
Statements == {e \o Semicolon \o Eof : e \in Operands \cup Assignments}
Malformed ==
    {e \o Eof : e \in Operands \cup Assignments}
        \cup {l \o Equals \o Semicolon \o Eof : l \in Operands}
Sources == Statements \cup Malformed

ParserInit ==
    /\ ModIdle
    /\ CallIdle
    /\ envs = <<NewEnvironment(0)>>
    /\ environment = Globals

ParserNext ==
    \/ \E source \in Sources : Parser(source)
    \/ parse

SpecParser == ParserInit /\ [][ParserNext]_vars

\* The program is one assignment statement, well formed but for its targets, and
\* an = of it stands after a literal or a call.
InvalidTarget ==
    /\ tokens \in Statements
    /\ \E i \in 2..Len(tokens) :
          tokens[i].type = "ASSIGN" /\ tokens[i - 1].type \in {"NUMBER", "RIGHT_PAREN"}

\* C16: parsing an assignment whose left side is not a Variable, Get or Index
\* expression (1 = 2;  f() = 3;) raises the parse error "Invalid assignment
\* target" and produces no AST.
C16_InvalidTargetIsParseError ==
    (InvalidTarget /\ (ast # <<>> \/ parseError # ""))
        => (parseError = "[Line 1] Invalid assignment target." /\ ast = <<>>)


\* C17: len(x) answers the number of characters of a string, of elements of an
\* array and of entries of a plain object, and raises a runtime error for any
\* other value.
C17_LenCountsEntries ==
    lastData.op = "len"
        => CASE lastData.kind = "str" ->
                   evalError = NoError /\ lastData.value = Num(Len(DataLets[2][2].s))
             [] lastData.kind = "arr" ->
                   evalError = NoError /\ lastData.value = Num(Len(arrays[lastData.target]))
             [] lastData.kind = "obj" ->
                   evalError = NoError /\ lastData.value = Num(Len(objects[lastData.target]))
             [] OTHER -> evalError = LenError


(***************************************************************************)
(* Default parameter values (ClouFunction.call, environment.ts lines       *)
(* 156-173).  The open program declares, in any scopes and any order,      *)
(*     let d = ...;                                                        *)
(*     function f(p = d) { }                                               *)
(*     class A { function init(p = d) { } }                                *)
(* and executes, in any scope, the statements  f();  and  new A();  which  *)
(* pass no argument, so that the default expression d is evaluated.        *)
(***************************************************************************)
DefaultExpr == "d"

\* interpreter.evaluate(defaultExpr), in ClouFunction.call: the expression is
\* evaluated in the interpreter's current environment.
DefaultValue(es, current) == EnvGet(es, current, DefaultExpr)

\* The statement has evaluated the default expression of callee's parameter.
\* Its body is empty, and the environments and the instance it created are
\* reachable from nothing once it is over.
DefaultEvaluated(kind, callee, value) ==
    /\ UNCHANGED <<modVars, callVars, instances, lastEval, arrays, parseVars>>
    /\ UNCHANGED <<classes, envs>>
    /\ lastAssign' = NoAssign
    /\ Complete(IF value.t = "error" THEN UndefinedError(DefaultExpr) ELSE NoError)
    /\ lastData' = [NoData EXCEPT !.op = "default", !.kind = kind,
                                  !.target = callee.closure, !.name = DefaultExpr,
                                  !.value = value,
                                  !.outcome = IF value.t = "error" THEN "raised"
                                              ELSE "value"]

\* name();  visitCallExpr makes a new Environment(callee.closure) the current
\* environment (lines 393, 420-421) and calls callee.call.
callWithDefault(name) ==
    LET callee == EnvGet(envs, environment, name)
        made == Append(envs, NewEnvironment(callee.closure))
    IN  /\ callee.t = "fn"
        /\ DefaultEvaluated("call", callee, DefaultValue(made, Len(made)))

\* new className();  visitNewExpr calls the bound initializer's call directly
\* (line 542): the current environment is still that of the new expression.
newWithDefault(className) ==
    LET classValue == EnvGet(envs, environment, className)
        initializer == findMethod(classes, classValue.id, "init", Len(classes))
    IN  /\ classValue.t = "class"
        /\ initializer.t = "fn"
        /\ DefaultEvaluated("new", initializer, DefaultValue(envs, environment))

DefaultsNext ==
    \/ \E value \in Literals : visitVarStmt(DefaultExpr, value, FALSE)
    \/ visitBlockStmt
    \/ executeBlockEnd
    \/ declareFunction("f")
    \/ Len(classes) < MaxClasses /\ visitClassStmt("A", "", {"init"})
    \/ callWithDefault("f")
    \/ newWithDefault("A")

SpecDefaults == EnvInit /\ [][DefaultsNext]_vars

\* C18: whenever a user function is invoked, by a call or as init by new, the
\* default expression of a parameter that received no argument is evaluated in
\* an environment whose parent is the function's closure: its free names
\* resolve as in the closure, never from the caller's local scope.
C18_DefaultsResolveInClosure ==
    lastData.op = "default"
        => lastData.value = EnvGet(envs, lastData.target, lastData.name)


\* C19: super.m() evaluated where no method of a class declared with extends is
\* running (at the top level of the program, say after an unrelated class)
\* raises an error whose message contains "Invalid super call".
C19_SuperOutsideSubclass ==
    lastEval.op = "superUnbound"
        => (evalError # NoError /\ evalError[1] = "Invalid super call")


\* The frames of the chain that starts at frame e, nearest first.
RECURSIVE Chain(_, _)
Chain(es, e) == IF e = 0 THEN <<>> ELSE <<e>> \o Chain(es, es[e].parent)

\* The nearest frame of the chain from e that binds the name (0: none does).
Nearest(es, e, name) ==
    LET chain == Chain(es, e)
        binding == {i \in 1..Len(chain) : name \in DOMAIN es[chain[i]].vals}
    IN  IF binding = {} THEN 0
        ELSE chain[CHOOSE i \in binding : \A j \in binding : i <= j]

\* C20: an assignment x = v with x bound in no frame of the chain raises
\* "Undefined variable 'x'" and creates no binding in any frame, and a read of a
\* variable answers the value of the nearest enclosing frame that binds it.
C20_AssignUnboundReadNearest ==
    [][ /\ (lastAssign'.name # "" /\ Nearest(envs, environment, lastAssign'.name) = 0)
           => (evalError' = UndefinedError(lastAssign'.name) /\ envs' = envs)
        /\ (lastData'.op = "variable" /\ Nearest(envs, environment, lastData'.name) # 0)
           => /\ evalError' = NoError
              /\ lastData'.value =
                    envs[Nearest(envs, environment, lastData'.name)].vals[lastData'.name].value
      ]_vars

\* An assignment from inside a block to a name that no frame binds has raised, and
\* still no frame binds the name.
C20_Witness ==
    /\ lastAssign.name = "x"
    /\ evalError = UndefinedError("x")
    /\ Len(envs) > 1
    /\ \A e \in 1..Len(envs) : "x" \notin DOMAIN envs[e].vals


(***************************************************************************)
(* Closures (visitFunctionStmt, lines 175-182; ClouFunction.call).  The    *)
(* program is                                                              *)
(*     function makeCounter() {                                            *)
(*       let count = 0;                                                    *)
(*       return function() { count = count + 1; return count; };           *)
(*     }                                                                   *)
(* followed by any sequence of the statements                              *)
(*     let c1 = makeCounter();   let c2 = makeCounter();   c1();   c2();   *)
(* and so on for further counters.                                         *)
(* Each statement is one step: nothing else runs while it does.  The       *)
(* environments a finished call created are kept only when a function      *)
(* value still refers to them.                                             *)
(***************************************************************************)
MaxCounters == 3        \* most calls of makeCounter
MaxCounterCalls == 4    \* most calls of counters

CounterNames == <<"c1", "c2", "c3", "c4", "c5">>

\* visitFunctionStmt, line 176: the function value closes over the environment
\* the function expression is evaluated in.
FunctionValue_global(decl, current) == ClouFunction(decl, Globals, FALSE, Null)
FunctionValue(decl, current) == ClouFunction(decl, current, FALSE, Null)

\* The counters made so far: the function values bound to the counter names.
Counters == {n \in DOMAIN envs[Globals].vals : n # "makeCounter"}

ClosuresOnly ==
    /\ UNCHANGED <<modVars, program, funcs, callFrames, moduleCallStack, mainPc, mainResult,
                   out, classes, scopes, instances, lastEval, arrays, parseVars,
                   environment>>
    /\ lastAssign' = NoAssign
    /\ lastData' = NoData

\* let name = makeCounter();  ClouFunction.call makes a new Environment(closure),
\* the body defines count in it and returns the anonymous function, which closes
\* over that environment.
makeCounterCall(name) ==
    /\ ClosuresOnly
    /\ LET callee == EnvGet(envs, environment, "makeCounter")
           frame == Len(envs) + 1
           made == EnvDefine(Append(envs, NewEnvironment(callee.closure)), frame,
                             "count", Num(0), FALSE)
           counter == FunctionValue(Declaration("makeCounter", "anonymous"), frame)
       IN  /\ callee.t = "fn"
           /\ InCallStack(moduleCallStack, callee) = FALSE
           /\ envs' = EnvDefine(made, environment, name, counter, FALSE)
           /\ evalError' = NoError
           /\ UNCHANGED callLog

\* name();  a call of a counter: the body runs in a new Environment(closure),
\* assigns count + 1 to count and returns count.
counterCall(name) ==
    /\ ClosuresOnly
    /\ LET callee == EnvGet(envs, environment, name)
           frame == Len(envs) + 1
           made == Append(envs, NewEnvironment(callee.closure))
           sum == Plus(EnvGet(made, frame, "count"), Num(1))
           assigned == IF sum.t = "error" THEN [envs |-> made, error |-> <<sum.message>>]
                       ELSE EnvAssign(made, frame, "count", sum)
           value == EnvGet(assigned.envs, frame, "count")
       IN  /\ callee.t = "fn"
           /\ InCallStack(moduleCallStack, callee) = FALSE
           /\ envs' = SubSeq(assigned.envs, 1, Len(envs))
           /\ evalError' = assigned.error
           /\ callLog' = Append(callLog,
                                [closure |-> callee.closure,
                                 value |-> IF assigned.error = NoError THEN value
                                           ELSE Null])

ClosuresNext ==
    \/ /\ "makeCounter" \notin DOMAIN envs[Globals].vals
       /\ declareFunction("makeCounter")
       /\ UNCHANGED callLog
    \/ /\ Cardinality(Counters) < MaxCounters
       /\ makeCounterCall(CounterNames[Cardinality(Counters) + 1])
    \/ \E name \in Counters :
          Len(callLog) < MaxCounterCalls /\ counterCall(name)

SpecClosures == EnvInit /\ [][ClosuresNext]_vars

\* How many of the first i logged calls were calls of the counter of call i.
CallsOfSame(i) == Cardinality({j \in 1..i : callLog[j].closure = callLog[i].closure})

\* C21: the k-th call of one counter returned by makeCounter() returns k, whatever
\* calls of counters from other makeCounter() calls come in between.
C21_CountersCountTheirOwnCalls ==
    \A i \in 1..Len(callLog) :
        evalError = NoError /\ callLog[i].value = Num(CallsOfSame(i))

\* Two counters have been called in turn, the first of them twice.
C21_Witness ==
    /\ Len(callLog) >= 3
    /\ callLog[1].closure = callLog[3].closure
    /\ callLog[1].closure # callLog[2].closure
    /\ callLog[3].value = Num(2)


(***************************************************************************)
(* Parameter binding (Parser.function, ast-nodes.ts lines 572-621;         *)
(* ClouFunction.call, environment.ts lines 148-173).  The program is       *)
(*     function f(<parameters>) { <body> }                                 *)
(* followed by calls f(<arguments>) at top level.  A declaration is what   *)
(* Parser.function builds: the parameter names, one default per parameter  *)
(* (NoDefault for none, else the value its literal evaluates to) and the   *)
(* position of the rest parameter (0 for none), which the parser only      *)
(* accepts as the last one and which never has a default.                  *)
(***************************************************************************)
MaxParams == 2      \* most parameters of a declaration
MaxArgs == 3        \* most arguments of a call

NoDefault == [t |-> "none"]
ParamNames == <<"p1", "p2", "p3", "p4">>
Arguments == {Null, Num(1), Num(2)}
DefaultLiterals == {NoDefault, Num(7)}

\* AST.Function as Parser.function returns it.
FunctionAst(n, defaults, restParam) ==
    [name |-> "f", params |-> SubSeq(ParamNames, 1, n), defaults |-> defaults,
     restParam |-> restParam]

Declarations ==
    {FunctionAst(n, defaults, restParam) :
        n \in 0..MaxParams, defaults \in UNION {[1..k -> DefaultLiterals] : k \in 0..MaxParams},
        restParam \in 0..MaxParams}

ArgumentLists == UNION {[1..m -> Arguments] : m \in 0..MaxArgs}

\* What Parser.function can return: one default per parameter, the rest
\* parameter last and without default.
WellFormed(decl) ==
    /\ Len(decl.defaults) = Len(decl.params)
    /\ decl.restParam \in {0, Len(decl.params)}
    /\ decl.restParam # 0 => decl.defaults[decl.restParam] = NoDefault

\* args.slice(i), line 162.
RestArgs_all(args, i) == args
RestArgs(args, i) == SubSeq(args, i, Len(args))

\* The loop of ClouFunction.call over the parameters from position i on
\* (lines 156-173): es the environments, as the arrays so far.
RECURSIVE BindFrom(_, _, _, _, _, _)
BindFrom(es, as, frame, decl, args, i) ==
    IF i > Len(decl.params) THEN [envs |-> es, arrays |-> as]
    ELSE IF decl.restParam # 0 /\ i = decl.restParam
    THEN [envs |-> EnvDefine(es, frame, decl.params[i], ArrRef(Len(as) + 1), FALSE),
          arrays |-> Append(as, RestArgs(args, i))]
    ELSE LET value == IF i <= Len(args) THEN args[i] ELSE Null
             bound == IF value = Null /\ decl.defaults[i] # NoDefault
                      THEN decl.defaults[i] ELSE value
         IN  BindFrom(EnvDefine(es, frame, decl.params[i], bound, FALSE), as, frame,
                      decl, args, i + 1)

ParamsOnly ==
    /\ UNCHANGED <<modVars, program, funcs, moduleCallStack, mainPc, mainResult, out,
                   callLog, classes, scopes, instances, lastEval, parseVars>>
    /\ lastAssign' = NoAssign
    /\ lastData' = NoData
    /\ evalError' = NoError

\* function f(<parameters>) { }  at top level (visitFunctionStmt).
declareWithParams(decl) ==
    /\ ParamsOnly
    /\ callFrames = <<>>
    /\ envs' = EnvDefine(envs, environment, "f", ClouFunction(decl, environment, FALSE, Null),
                         FALSE)
    /\ UNCHANGED <<callFrames, arrays, environment>>

\* f(<arguments>);  up to the start of the body: visitCallExpr makes an
\* environment under the closure, ClouFunction.call makes the frame of the call,
\* binds the parameters in it and executeBlock makes it the current environment.
callWithArgs(args) ==
    /\ ParamsOnly
    /\ callFrames = <<>>
    /\ "f" \in DOMAIN envs[Globals].vals
    /\ LET callee == EnvGet(envs, environment, "f")
           made == envs \o <<NewEnvironment(callee.closure), NewEnvironment(callee.closure)>>
           frame == Len(made)
           bound == BindFrom(made, arrays, frame, callee.decl, args, 1)
       IN  /\ envs' = bound.envs
           /\ arrays' = bound.arrays
           /\ environment' = frame
           /\ callFrames' = <<[fn |-> callee, args |-> args, previous |-> environment,
                               arrays |-> Len(arrays)]>>

\* The end of the body: the call returns null, visitCallExpr restores the
\* environment, and nothing refers to the frame or a rest array any longer.
callWithArgsEnd ==
    /\ ParamsOnly
    /\ callFrames # <<>>
    /\ environment' = callFrames[1].previous
    /\ envs' = SubSeq(envs, 1, Len(envs) - 2)
    /\ arrays' = SubSeq(arrays, 1, callFrames[1].arrays)
    /\ callFrames' = <<>>

ParamsNext ==
    \/ \E decl \in Declarations : WellFormed(decl) /\ declareWithParams(decl)
    \/ \E args \in ArgumentLists : callWithArgs(args)
    \/ callWithArgsEnd

SpecParams == EnvInit /\ [][ParamsNext]_vars

\* The value parameter i is bound to in the frame of the running call.
BoundTo(i) == envs[environment].vals[callFrames[1].fn.decl.params[i]].value

\* Parameter i of the running call is its rest parameter.
IsRest(i) == callFrames[1].fn.decl.restParam = i

\* Parameter i of the running call is bound as the loop binds a rest parameter.
RestBound(i) ==
    /\ BoundTo(i).t = "arr"
    /\ BoundTo(i).id > callFrames[1].arrays
    /\ arrays[BoundTo(i).id] = SubSeq(callFrames[1].args, i, Len(callFrames[1].args))

\* C22 as stated: every parameter that has an argument is bound to it, a
\* parameter without argument and without default is null, the rest parameter is
\* a new array of the remaining arguments, and excess arguments raise nothing.
C22_ParamsBoundToArgs ==
    callFrames # <<>> =>
        LET decl == callFrames[1].fn.decl
            args == callFrames[1].args
        IN  /\ evalError = NoError
            /\ DOMAIN envs[environment].vals = {decl.params[i] : i \in 1..Len(decl.params)}
            /\ \A i \in 1..Len(decl.params) :
                  IF IsRest(i) THEN RestBound(i)
                  ELSE IF i <= Len(args) THEN BoundTo(i) = args[i]
                  ELSE decl.defaults[i] = NoDefault => BoundTo(i) = Null

\* C22: as above, except that a parameter with a default whose argument is null
\* is bound to the value of the default, as is one without argument.
C22_ParamsBoundToArgsOrDefault ==
    callFrames # <<>> =>
        LET decl == callFrames[1].fn.decl
            args == callFrames[1].args
        IN  /\ evalError = NoError
            /\ DOMAIN envs[environment].vals = {decl.params[i] : i \in 1..Len(decl.params)}
            /\ \A i \in 1..Len(decl.params) :
                  IF IsRest(i) THEN RestBound(i)
                  ELSE IF i <= Len(args) /\ ~(args[i] = Null /\ decl.defaults[i] # NoDefault)
                  THEN BoundTo(i) = args[i]
                  ELSE BoundTo(i) = IF decl.defaults[i] = NoDefault THEN Null
                                    ELSE decl.defaults[i]

\* A call with three arguments of a function whose second parameter is the rest
\* parameter, and whose first has a default and a null argument.
C22_Witness ==
    /\ callFrames # <<>>
    /\ Len(callFrames[1].args) = 3
    /\ callFrames[1].fn.decl.restParam = 2
    /\ callFrames[1].args[1] = Null
    /\ BoundTo(1) = Num(7)
    /\ Len(arrays[BoundTo(2).id]) = 2


(***************************************************************************)
(* print of a plain object (the native print, interpreter.ts lines 29-56). *)
(* The program is                                                          *)
(*     let n = 1;   let o = { ... };                                       *)
(* followed by any sequence of  o.k = v;   o[key] = v;   print(o);         *)
(* The heap keeps the entries of an object in the order of their first     *)
(* insertion; Object.keys and Object.entries enumerate the keys that are   *)
(* array indices first, in ascending numeric order, and the other keys     *)
(* after them in insertion order.                                          *)
(***************************************************************************)
MaxKey == 1         \* largest number used as a key
MaxPrints == 1      \* most lines printed

\* The key obj[n] = v stores under.
IndexKey(n) == Lexeme(NatToString(n))

\* The entries of o under array-index keys from n on, ascending.
RECURSIVE IndexEntries(_, _)
IndexEntries(o, n) ==
    IF n > MaxKey THEN <<>>
    ELSE (IF IndexKey(n) \in ObjKeys(o) THEN <<o[OwnProperty(o, IndexKey(n))]>> ELSE <<>>)
         \o IndexEntries(o, n + 1)

IsNamedEntry(entry) == \A n \in 0..MaxKey : entry[1] # IndexKey(n)

\* Object.entries(value), line 43.
ObjectEntries(o) == IndexEntries(o, 0) \o SelectSeq(o, IsNamedEntry)

\* entries.map(([key, val]) => `${key}: ${stringify(val)}`).join(", ")
RECURSIVE JoinEntries(_)
JoinEntries(entries) ==
    IF entries = <<>> THEN ""
    ELSE entries[1][1] \o ": " \o Lexeme(StringOf(entries[1][2]))
         \o (IF Len(entries) = 1 THEN "" ELSE ", " \o JoinEntries(Tail(entries)))

\* The text of a plain object with the given entries, lines 39-47.
ObjectText(entries) == IF entries = <<>> THEN "{}" ELSE "{ " \o JoinEntries(entries) \o " }"

\* stringify(value) for a plain object, lines 39-47.
stringify(o) == ObjectText(ObjectEntries(o))

\* print(name);
printObject(name) ==
    /\ UNCHANGED <<modVars, program, funcs, callFrames, moduleCallStack, mainPc, mainResult,
                   callLog, classes, scopes, instances, lastEval, arrays, parseVars,
                   envVars>>
    /\ lastAssign' = NoAssign
    /\ LET object == EnvGet(envs, environment, name)
       IN  /\ object.t = "obj"
           /\ out' = Append(out, stringify(objects[object.id]))
           /\ evalError' = NoError
           /\ lastData' = [NoData EXCEPT !.op = "print", !.kind = "obj",
                                         !.target = object.id, !.outcome = "printed"]

PrintLets == <<<<"n", Num(1)>>>>
PrintKeys == {Num(n) : n \in 0..MaxKey} \cup {Str(<<"k">>), Str(<<"1">>)}
PrintDeclared == Cardinality(DOMAIN envs[Globals].vals)

PrintNext ==
    \/ /\ PrintDeclared < Len(PrintLets)
       /\ visitVarStmt(PrintLets[PrintDeclared + 1][1], PrintLets[PrintDeclared + 1][2], FALSE)
       /\ UNCHANGED out
    \/ \E properties \in SeqsUpTo({<<"b", Num(1)>>}, 1) :
          PrintDeclared = Len(PrintLets) /\ visitObjectExpr("o", properties)
    \/ \E index \in PrintKeys :
          PrintDeclared > Len(PrintLets) /\ visitIndexAssignExpr("o", index, "n")
    \/ PrintDeclared > Len(PrintLets) /\ visitSetExpr("o", "b", "n")
    \/ PrintDeclared > Len(PrintLets) /\ Len(out) < MaxPrints /\ printObject("o")

SpecPrint == DataInit /\ [][PrintNext]_vars

\* C23: the line print(o) has just written lists the entries of o in the order in
\* which their keys were first inserted.
C23_PrintedInInsertionOrder ==
    lastData.op = "print" => out[Len(out)] = ObjectText(objects[lastData.target])


(***************************************************************************)
(* The fields of an instance as ClouInstance keeps them (environment.ts    *)
(* lines 243-322, hidden-class.ts): a hidden class that maps the names to  *)
(* indexes, the array of the values at these indexes, and a cache of the   *)
(* indexes already looked up.  Every instance starts from a hidden class   *)
(* of its own, so the hidden classes an instance has gone through are kept *)
(* with the instance.  The program is                                      *)
(*     class A { function m() {} }   class B extends A { }                 *)
(*     let o1 = new A();   let o2 = new B();                               *)
(* followed by any sequence of  o.f = v;  and  o.f;                        *)
(***************************************************************************)

\* new HiddenClassImpl()
HiddenClass == [propertyIndexes |-> <<>>, transitionCache |-> <<>>, propertyCount |-> 0]

\* HiddenClassImpl.addProperty on the hidden class h of the heap hs: the heap
\* afterwards and the hidden class returned.
addProperty_first(hs, h, name) ==
    IF name \in DOMAIN hs[h].transitionCache
    THEN [hidden |-> hs, class |-> hs[h].transitionCache[name]]
    ELSE [hidden |-> Append([hs EXCEPT ![h].transitionCache = (name :> (Len(hs) + 1)) @@ @],
                            [HiddenClass EXCEPT
                                !.propertyIndexes = (name :> 0) @@ hs[h].propertyIndexes,
                                !.propertyCount = hs[h].propertyCount + 1]),
          class |-> Len(hs) + 1]
addProperty(hs, h, name) ==
    IF name \in DOMAIN hs[h].transitionCache
    THEN [hidden |-> hs, class |-> hs[h].transitionCache[name]]
    ELSE [hidden |-> Append([hs EXCEPT ![h].transitionCache = (name :> (Len(hs) + 1)) @@ @],
                            [HiddenClass EXCEPT
                                !.propertyIndexes = (name :> hs[h].propertyCount)
                                                    @@ hs[h].propertyIndexes,
                                !.propertyCount = hs[h].propertyCount + 1]),
          class |-> Len(hs) + 1]

\* new ClouInstance(klass), lines 248-252.
HiddenInstance(klass) ==
    [klass |-> klass, hidden |-> <<HiddenClass>>, hiddenClass |-> 1, properties |-> <<>>,
     propertyCache |-> <<>>]

\* this.properties[index] ?? null
PropertyAt(instance, index) ==
    IF index \in DOMAIN instance.properties THEN instance.properties[index] ELSE Null

\* ClouClass.getProperty, with the bound on the recursion of findMethod.
RECURSIVE getProperty(_, _, _, _)
getProperty(cs, k, name, fuel) ==
    IF name \in DOMAIN cs[k].properties THEN cs[k].properties[name]
    ELSE IF cs[k].superclass.t # "class" THEN Null
    ELSE IF fuel = 0 THEN StackOverflow
    ELSE getProperty(cs, cs[k].superclass.id, name, fuel - 1)

\* ClouInstance.get, lines 254-286: the value returned (an error value for a
\* throw) and the instance afterwards.
ClouInstanceGet(cs, instance, o, name) ==
    LET indexes == instance.hidden[instance.hiddenClass].propertyIndexes
        classProperty == getProperty(cs, instance.klass, name, Len(cs))
        method == findMethod(cs, instance.klass, name, Len(cs))
    IN  IF name \in DOMAIN instance.propertyCache
        THEN [value |-> PropertyAt(instance, instance.propertyCache[name]),
              instance |-> instance]
        ELSE IF name \in DOMAIN indexes
        THEN [value |-> PropertyAt(instance, indexes[name]),
              instance |-> [instance EXCEPT !.propertyCache = (name :> indexes[name]) @@ @]]
        ELSE IF classProperty # Null
        THEN [value |-> classProperty, instance |-> instance]
        ELSE IF method.t = "fn"
        THEN [value |-> bind(method, InstRef(o)), instance |-> instance]
        ELSE IF method.t = "error"
        THEN [value |-> method, instance |-> instance]
        ELSE [value |-> RuntimeError("Undefined property"), instance |-> instance]

\* ClouInstance.set, lines 288-317: the instance and the classes afterwards.
ClouInstanceSet(cs, instance, name, value) ==
    LET indexes == instance.hidden[instance.hiddenClass].propertyIndexes
        added == addProperty(instance.hidden, instance.hiddenClass, name)
        newIndex == added.hidden[added.class].propertyIndexes[name]
    IN  IF name \in DOMAIN instance.propertyCache
        THEN [instance |-> [instance EXCEPT
                               !.properties = (instance.propertyCache[name] :> value) @@ @],
              classes |-> cs]
        ELSE IF name \in DOMAIN indexes
        THEN [instance |-> [instance EXCEPT
                               !.properties = (indexes[name] :> value) @@ @,
                               !.propertyCache = (name :> indexes[name]) @@ @],
              classes |-> cs]
        ELSE IF getProperty(cs, instance.klass, name, Len(cs)) # Null
        THEN [instance |-> instance,
              classes |-> [cs EXCEPT ![instance.klass].properties = (name :> value) @@ @]]
        ELSE [instance |-> [instance EXCEPT
                               !.hidden = added.hidden,
                               !.hiddenClass = added.class,
                               !.properties = (newIndex :> value) @@ @,
                               !.propertyCache = (name :> newIndex) @@ @],
              classes |-> cs]

FieldInstances == <<"o1", "o2">>
FieldClasses == <<"A", "B">>
FieldNames == {"f", "g", "m"}
FieldValues == {Num(1), Null}

FieldsOnly ==
    /\ UNCHANGED <<modVars, program, funcs, callFrames, moduleCallStack, mainPc, mainResult,
                   out, scopes, lastEval, arrays, parseVars, environment>>
    /\ lastAssign' = NoAssign

\* let varName = new className();  for a class without init (visitNewExpr).
newInstance(varName, className) ==
    /\ FieldsOnly
    /\ LET classValue == EnvGet(envs, environment, className)
       IN  /\ classValue.t = "class"
           /\ instances' = Append(instances, HiddenInstance(classValue.id))
           /\ envs' = EnvDefine(envs, environment, varName, InstRef(Len(instances) + 1), FALSE)
    /\ evalError' = NoError
    /\ lastData' = NoData
    /\ UNCHANGED <<classes, callLog>>

\* varName.name = value;  visitSetExpr on an instance.  callLog keeps, for every
\* instance and name, the value of the last such statement.
instanceSet(varName, name, value) ==
    /\ FieldsOnly
    /\ LET object == EnvGet(envs, environment, varName)
           result == ClouInstanceSet(classes, instances[object.id], name, value)
       IN  /\ object.t = "inst"
           /\ instances' = [instances EXCEPT ![object.id] = result.instance]
           /\ classes' = result.classes
           /\ callLog' = (<<object.id, name>> :> value) @@ callLog
           /\ lastData' = [NoData EXCEPT !.op = "instanceSet", !.kind = "inst",
                                         !.target = object.id, !.name = name,
                                         !.value = value, !.outcome = "stored"]
    /\ evalError' = NoError
    /\ UNCHANGED envs

\* varName.name;  visitGetExpr on an instance.
instanceGet(varName, name) ==
    /\ FieldsOnly
    /\ LET object == EnvGet(envs, environment, varName)
           result == ClouInstanceGet(classes, instances[object.id], object.id, name)
           raised == result.value.t = "error"
       IN  /\ object.t = "inst"
           /\ instances' = [instances EXCEPT ![object.id] = result.instance]
           /\ evalError' = IF raised
                           THEN IF result.value = StackOverflow THEN <<result.value.message>>
                                ELSE PropertyError(name)
                           ELSE NoError
           /\ lastData' = [NoData EXCEPT !.op = "instanceGet", !.kind = "inst",
                                         !.target = object.id, !.name = name,
                                         !.value = IF raised THEN Null ELSE result.value,
                                         !.outcome = IF raised THEN "raised" ELSE "value"]
    /\ UNCHANGED <<envs, classes, callLog>>

FieldsNext ==
    \/ /\ Len(classes) = 0
       /\ visitClassStmt("A", "", {"m"})
       /\ UNCHANGED callLog
    \/ /\ Len(classes) = 1
       /\ visitClassStmt("B", "A", {})
       /\ UNCHANGED callLog
    \/ /\ Len(classes) = Len(FieldClasses)
       /\ Len(instances) < Len(FieldInstances)
       /\ newInstance(FieldInstances[Len(instances) + 1], FieldClasses[Len(instances) + 1])
    \/ \E i \in 1..Len(instances), name \in FieldNames, value \in FieldValues :
          instanceSet(FieldInstances[i], name, value)
    \/ \E i \in 1..Len(instances), name \in FieldNames :
          instanceGet(FieldInstances[i], name)

SpecFields == ClassInit /\ [][FieldsNext]_vars

\* C24: a read o.f returns the value of the last assignment o.f = v, whatever was
\* assigned to other fields and other instances since; when f was never assigned
\* on o the read gives the method f of o's class chain bound to o, and raises
\* "Undefined property" when no class of the chain defines f.
C24_ReadReturnsLastAssigned ==
    lastData.op = "instanceGet" =>
        LET o == lastData.target
            name == lastData.name
            method == findMethod(classes, instances[o].klass, name, Len(classes))
        IN  IF <<o, name>> \in DOMAIN callLog
            THEN lastData.outcome = "value" /\ lastData.value = callLog[<<o, name>>]
            ELSE IF method.t = "fn"
            THEN /\ lastData.outcome = "value"
                 /\ lastData.value = [method EXCEPT !.boundThis = InstRef(o)]
            ELSE lastData.outcome = "raised" /\ evalError = PropertyError(name)

\* o1.f was assigned, then o1.g and a field of o2 with other values, and o1.f has
\* just been read.
C24_Witness ==
    /\ lastData.op = "instanceGet"
    /\ lastData.target = 1
    /\ lastData.name = "f"
    /\ {<<1, "f">>, <<1, "g">>, <<2, "f">>} \subseteq DOMAIN callLog
    /\ callLog[<<1, "g">>] # callLog[<<1, "f">>]
    /\ callLog[<<2, "f">>] # callLog[<<1, "f">>]
    /\ instances[1].hidden[instances[1].hiddenClass].propertyIndexes["g"] = 0


(***************************************************************************)
(* Arithmetic operators in the parser (Parser.term, factor, unary, power,  *)
(* ast-nodes.ts lines 865-909) and their values (visitBinaryExpr,          *)
(* visitUnaryExpr).  The programs are the expression statements            *)
(*     [-] x ;     [-] x op [-] y ;     [-] x op [-] y op [-] z ;          *)
(* with x, y, z among  2  3  a  and op among  ^  *  -.                     *)
(***************************************************************************)
Caret == Token("POWER", "^")
Star == Token("MULTIPLY", "*")
Minus == Token("MINUS", "-")

PowerOperands == {Token("NUMBER", "2"), Token("NUMBER", "3"), Token("IDENTIFIER", "a")}
PowerOperators == {Caret, Star, Minus}
Signed == {<<x>> : x \in PowerOperands} \cup {<<Minus, x>> : x \in PowerOperands}
PowerExpressions ==
    Signed \cup {x \o <<op>> \o y : x, y \in Signed, op \in PowerOperators}
           \cup {x \o <<op1>> \o y \o <<op2>> \o z :
                    x, y, z \in Signed, op1, op2 \in PowerOperators}
PowerSources == {e \o Semicolon \o Eof : e \in PowerExpressions}

\* The node Parser.primary builds for an operand.
Operand(token) ==
    IF token.type = "NUMBER" THEN Literal(token.lexeme) ELSE Variable(token.lexeme)

\* Math.pow(a, b) for an integer a and a natural number b.
RECURSIVE Pow(_, _)
Pow(a, b) == IF b = 0 THEN 1 ELSE a * Pow(a, b - 1)

\* The decoded number of a NUMBER token of the programs.
NumberOf(lexeme) == CHOOSE n \in 0..9 : Lexeme(NatToString(n)) = lexeme

\* Interpreter.evaluate for an expression of number literals: visitLiteralExpr,
\* visitUnaryExpr (MINUS) and visitBinaryExpr (POWER, MULTIPLY, MINUS).
RECURSIVE Evaluate(_)
Evaluate(expr) ==
    CASE expr.node = "Literal" -> NumberOf(expr.value)
      [] expr.node = "Unary" -> 0 - Evaluate(expr.right)
      [] expr.node = "Binary" /\ expr.operator = "^" ->
            Pow(Evaluate(expr.left), Evaluate(expr.right))
      [] expr.node = "Binary" /\ expr.operator = "*" ->
            Evaluate(expr.left) * Evaluate(expr.right)
      [] expr.node = "Binary" /\ expr.operator = "-" ->
            Evaluate(expr.left) - Evaluate(expr.right)

PowerNext ==
    \/ \E source \in PowerSources : Parser(source)
    \/ parse

SpecPower == ParserInit /\ [][PowerNext]_vars

\* The program parsed is the given expression followed by a semicolon.
ParsedFrom(expressionTokens) ==
    /\ tokens = expressionTokens \o Semicolon \o Eof
    /\ ast # <<>>

\* C25: a ^ b ^ c is parsed as a ^ (b ^ c), -a ^ b as -(a ^ b), a ^ b * c as
\* (a ^ b) * c and a * b ^ c as a * (b ^ c), for all operands a, b, c; and the
\* value of 2 ^ 3 ^ 2 is 512.
C25_PowerBindsTightestRightToLeft ==
    /\ parseError = ""
    /\ \A a, b, c \in PowerOperands :
          /\ ParsedFrom(<<a, Caret, b, Caret, c>>) =>
                ast = <<Expression(Binary(Operand(a), "^",
                                          Binary(Operand(b), "^", Operand(c))))>>
          /\ ParsedFrom(<<Minus, a, Caret, b>>) =>
                ast = <<Expression(Unary("-", Binary(Operand(a), "^", Operand(b))))>>
          /\ ParsedFrom(<<a, Caret, b, Star, c>>) =>
                ast = <<Expression(Binary(Binary(Operand(a), "^", Operand(b)), "*",
                                          Operand(c)))>>
          /\ ParsedFrom(<<a, Star, b, Caret, c>>) =>
                ast = <<Expression(Binary(Operand(a), "*",
                                          Binary(Operand(b), "^", Operand(c))))>>
    /\ ParsedFrom(<<Token("NUMBER", "2"), Caret, Token("NUMBER", "3"), Caret,
                    Token("NUMBER", "2")>>) => Evaluate(ast[1].expr) = 512

\* 2 ^ 3 ^ 2 ;  has been parsed.
C25_Witness ==
    /\ ParsedFrom(<<Token("NUMBER", "2"), Caret, Token("NUMBER", "3"), Caret,
                    Token("NUMBER", "2")>>)
    /\ ast[1].expr.right.node = "Binary"


(***************************************************************************)
(* Entering and leaving environments (executeBlock, lines 677-688;         *)
(* visitCallExpr, lines 418-435; require, lines 107-118; ClouFunction.call *)
(* and visitNewExpr).  callFrames holds what is in progress, innermost     *)
(* last: a block statement, the call of visitCallExpr, the body that       *)
(* ClouFunction.call executes, or the body of a required module, each with *)
(* the environment its code saved on entry.  An error or a Return signal   *)
(* leaves them one after the other through their finally clauses;          *)
(* ClouFunction.call catches a Return signal.  A statement at top level    *)
(* starts when the one before has finished, with or without error.         *)
(***************************************************************************)
MaxNest == 3        \* most entries of callFrames

RuntimeSignal == <<"Runtime Error">>
ReturnSignal == <<"Return">>

Innermost == callFrames[Len(callFrames)]

\* Something new can start: nothing propagates, and the innermost entry is not a
\* call whose body has ended.
Running ==
    IF callFrames = <<>> THEN TRUE
    ELSE evalError = NoError /\ Innermost.kind # "call"

\* finally { this.environment = previous; }  (lines 114-116, 427-429, 685-687):
\* the current environment after the clause.
Finally_normal(signal, current, previous) == IF signal = NoError THEN previous ELSE current
Finally(signal, current, previous) == previous

Entered(kind, previous, key, base) ==
    [kind |-> kind, previous |-> previous, key |-> key, base |-> base]

UnwindOnly ==
    /\ UNCHANGED <<files, loading, topCount, lastResult, lastError, requireLog, program,
                   funcs, mainPc, mainResult, out, callLog, classes, scopes, instances,
                   lastEval, arrays, parseVars>>
    /\ lastAssign' = NoAssign

RequirePaths == {<<Dot, Clou("a")>>, <<Seg("b")>>, <<Dot, Clou("c")>>}

\* { ... }  visitBlockStmt: executeBlock(statements, new Environment(this.environment)).
enterBlock ==
    /\ UnwindOnly
    /\ Running
    /\ Len(callFrames) < MaxNest
    /\ envs' = Append(envs, NewEnvironment(environment))
    /\ environment' = Len(envs) + 1
    /\ callFrames' = Append(callFrames, Entered("block", environment, <<>>, Len(envs)))
    /\ evalError' = NoError
    /\ lastData' = NoData
    /\ UNCHANGED <<moduleCallStack, requireCache, objects>>

\* A call of the function called name that was declared in the environment
\* closure: answered with "" when its key is in moduleCallStack, else entered up to
\* the first statement of the body.
enterCall(closure, name) ==
    /\ UnwindOnly
    /\ Running
    /\ LET callee == ClouFunction(Declaration("function", name), closure, FALSE, Null)
           key == <<closure, functionKey(callee)>>
           called == Len(envs) + 1
           body == Len(envs) + 2
       IN  IF InCallStack(moduleCallStack, callee)
           THEN /\ lastData' = [NoData EXCEPT !.op = "suppressed", !.name = name,
                                              !.target = closure]
                /\ UNCHANGED <<envs, environment, callFrames, moduleCallStack>>
           ELSE /\ Len(callFrames) + 2 <= MaxNest
                /\ envs' = envs \o <<NewEnvironment(closure), NewEnvironment(closure)>>
                /\ environment' = body
                /\ moduleCallStack' = moduleCallStack \cup {key}
                /\ callFrames' = callFrames \o
                                    <<Entered("call", environment, key, Len(envs)),
                                      Entered("body", called, <<>>, called)>>
                /\ lastData' = NoData
    /\ evalError' = NoError
    /\ UNCHANGED <<requireCache, objects>>

\* new C(...) for a class with init: visitNewExpr calls the initializer's call
\* itself, which executes the body in a new Environment(closure).
enterNew(closure) ==
    /\ UnwindOnly
    /\ Running
    /\ Len(callFrames) < MaxNest
    /\ envs' = Append(envs, NewEnvironment(closure))
    /\ environment' = Len(envs) + 1
    /\ callFrames' = Append(callFrames, Entered("body", environment, <<>>, Len(envs)))
    /\ evalError' = NoError
    /\ lastData' = NoData
    /\ UNCHANGED <<moduleCallStack, requireCache, objects>>

\* require(path): a cached path returns at once; a path with no source raises
\* after the cache entry was made and before the environment is touched; else
\* the module environment becomes current up to the end of the body.
enterRequire(path) ==
    /\ UnwindOnly
    /\ Running
    /\ UNCHANGED moduleCallStack
    /\ IF getCachedModule(requireCache, path) # 0
       THEN /\ evalError' = NoError
            /\ lastData' = [NoData EXCEPT !.op = "finished", !.kind = "cached",
                                          !.target = environment]
            /\ UNCHANGED <<envs, environment, callFrames, requireCache, objects>>
       ELSE LET a == Allocated(path)
            IN  /\ objects' = a.objects
                /\ requireCache' = a.cache
                /\ IF HasModuleSource(files, path, currentDir)
                   THEN /\ Len(callFrames) < MaxNest
                        /\ envs' = a.envs
                        /\ environment' = a.env
                        /\ callFrames' = Append(callFrames,
                                                Entered("require", environment, <<>>,
                                                        Len(a.envs)))
                        /\ evalError' = NoError
                        /\ lastData' = NoData
                   ELSE /\ evalError' = RuntimeSignal
                        /\ lastData' = [NoData EXCEPT !.op = "finished",
                                                      !.kind = "missing",
                                                      !.target = environment]
                        /\ UNCHANGED <<envs, environment, callFrames>>

\* A statement raises a runtime error, or a return statement is executed.
raise(signal) ==
    /\ UnwindOnly
    /\ Running
    /\ evalError' = signal
    /\ lastData' = NoData
    /\ UNCHANGED <<envs, environment, callFrames, moduleCallStack, requireCache, objects>>

\* The innermost entry ends, at the end of its statements or because a signal
\* passes through it: its finally clause runs, and the body of a function keeps
\* a Return signal from going further.
leave ==
    /\ UnwindOnly
    /\ callFrames # <<>>
    /\ environment' = Finally(evalError, environment, Innermost.previous)
    /\ moduleCallStack' = IF Innermost.kind = "call"
                          THEN moduleCallStack \ {Innermost.key} ELSE moduleCallStack
    /\ evalError' = IF Innermost.kind = "body" /\ evalError = ReturnSignal
                    THEN NoError ELSE evalError
    /\ callFrames' = SubSeq(callFrames, 1, Len(callFrames) - 1)
    /\ envs' = SubSeq(envs, 1, Innermost.base)
    /\ lastData' = [NoData EXCEPT !.op = "finished", !.kind = Innermost.kind,
                                  !.target = Innermost.previous,
                                  !.outcome = IF evalError = NoError THEN "returned"
                                              ELSE "raised"]
    /\ UNCHANGED <<requireCache, objects>>

UnwindNext ==
    \/ enterBlock
    \/ \E closure \in 1..Len(envs), name \in {"f", "anonymous"} : enterCall(closure, name)
    \/ \E closure \in 1..Len(envs) : enterNew(closure)
    \/ \E path \in RequirePaths : enterRequire(path)
    \/ \E signal \in {RuntimeSignal, ReturnSignal} : raise(signal)
    \/ leave

SpecUnwind == ClassInit /\ [][UnwindNext]_vars

\* The keys of the calls in progress.
KeysInProgress ==
    {callFrames[i].key : i \in {j \in 1..Len(callFrames) : callFrames[j].kind = "call"}}

\* C26: when a require call has finished, normally or not, the current environment
\* is the one from before the call; when a top-level statement has finished it is
\* the global one; and moduleCallStack holds the keys of calls in progress only.
C26_EnvironmentAndGuardRestored ==
    /\ lastData.op = "finished" /\ lastData.kind \in {"require", "cached", "missing"}
          => environment = lastData.target
    /\ callFrames = <<>> => environment = Globals
    /\ moduleCallStack \subseteq KeysInProgress

\* A require inside the body of a call has just been left by an error passing
\* through it.
C26_Witness ==
    /\ lastData.op = "finished"
    /\ lastData.kind = "require"
    /\ lastData.outcome = "raised"
    /\ Len(callFrames) = 2
    /\ callFrames[1].kind = "call"
    /\ callFrames[2].kind = "body"
    /\ environment # Globals
    /\ evalError = RuntimeSignal


\* C27: a call is answered with "" only when the declaration it would enter is
\* the declaration of a function that is executing.
C27_SuppressedOnlyIfExecuting ==
    lastEval.outcome = "suppressed" =>
        \E i \in 1..Len(callFrames) : callFrames[i].fn.decl = lastEval.decl


\* C28: a require call that raised has left no entry in the module cache, so every
\* require call of a path that has no source raises: none is answered from the
\* cache.
C28_FailedRequireLeavesCache ==
    /\ \A i \in 1..Len(requireLog) :
          ~HasModuleSource(files, requireLog[i].path, currentDir) => ~requireLog[i].cached
    /\ \A p \in Paths :
          ~HasModuleSource(files, p, currentDir) => getCachedModule(requireCache, p) = 0


(***************************************************************************)
(* The module cache with ModuleSystem.clearCache (ast-nodes.ts lines       *)
(* 508-513).  No statement of the language reaches clearCache: the host    *)
(* calls it between two runs of the main program's statements.  requireLog *)
(* then starts again: it lists the require calls since the last            *)
(* clearCache.  A clearCache after the last statement of the main program *)
(* changes nothing that is observed.                                       *)
(***************************************************************************)
clearCache ==
    /\ ModuleOnly
    /\ loading = <<>>
    /\ requireLog # <<>>
    /\ topCount < MaxTop
    /\ requireCache' = [p \in Paths |-> 0]
    /\ requireLog' = <<>>
    /\ UNCHANGED <<files, objects, loading, topCount, lastResult, lastError>>
    /\ UNCHANGED envVars

CacheNext ==
    \/ ModNext
    \/ clearCache

\* The programs are those in which a.clou and b.clou require each other, under
\* any spelling, and with more than one require in a body also themselves; the
\* main program requires any path, also one that names no file.
SpecCache == CycleInit /\ [][CacheNext]_vars

ScopeFiles ==
    (FileA :> <<ExpStmt("first"), ReqStmt(<<Dot, Clou("b")>>), ExpStmt("last")>>)
        @@ (FileB :> <<ExpStmt("first"), ReqStmt(<<Dot, Clou("a")>>), ExpStmt("last")>>)

ScopeInit == ModInit /\ files = ScopeFiles

\* The names the body of a file declares: a variable, a function, a class.
DeclaredBy(file) ==
    IF file = FileA THEN [var |-> "xa", function |-> "fa", class |-> "Ca"]
    ELSE [var |-> "xb", function |-> "fb", class |-> "Cb"]

NamesOf(file) == {DeclaredBy(file).var, DeclaredBy(file).function, DeclaredBy(file).class}

\* The module body that is running has statements left.
InBody == loading # <<>> /\ Top.pc <= Len(Top.body)

\* The names the running module body has declared so far.  A body declares its
\* variable first, then its function, then its class.
DeclaredHere == DOMAIN envs[environment].vals \cap NamesOf(Top.file)

ScopeNext ==
    \/ ModNext
    \/ /\ InBody
       /\ DeclaredHere = {}
       /\ visitVarStmt(DeclaredBy(Top.file).var, Num(1), Top.file = FileB)
    \/ /\ InBody
       /\ DeclaredHere = {DeclaredBy(Top.file).var}
       /\ declareFunction(DeclaredBy(Top.file).function)
    \/ /\ InBody
       /\ DeclaredHere = {DeclaredBy(Top.file).var, DeclaredBy(Top.file).function}
       /\ Len(classes) < MaxClasses
       /\ visitClassStmt(DeclaredBy(Top.file).class, "", {})

SpecScope == ScopeInit /\ [][ScopeNext]_vars

\* Environment e is the module environment of a load of the file: it is a child
\* of the globals and holds the exports object of such a load.
ModuleEnvOf(e, file) ==
    /\ e # Globals
    /\ envs[e].parent = Globals
    /\ "exports" \in DOMAIN envs[e].vals
    /\ \E k \in 1..Len(requireLog) :
          /\ requireLog[k].file = file
          /\ ~requireLog[k].cached
          /\ ObjRef(requireLog[k].exports) = envs[e].vals["exports"].value

\* C30: the globals hold no binding made by a module body; a name a module
\* declares is bound only in module environments of its file; so it resolves
\* neither from the globals nor from the environment of another module; and the
\* frame of the requiring module gets nothing but the constant it binds the
\* result to.
C30_ModuleNamesStayInModule ==
    /\ DOMAIN envs[Globals].vals = {}
    /\ \A e \in 1..Len(envs), file \in FileKeys :
          /\ (NamesOf(file) \cap DOMAIN envs[e].vals # {}) => ModuleEnvOf(e, file)
          /\ ModuleEnvOf(e, file) =>
                /\ DOMAIN envs[e].vals \subseteq NamesOf(file) \cup {"exports", "dep"}
                /\ \A other \in FileKeys \ {file} :
                      \A name \in NamesOf(other) : EnvGet(envs, e, name).t = "error"
    /\ \A file \in FileKeys :
          \A name \in NamesOf(file) : EnvGet(envs, Globals, name).t = "error"

\* Both modules have returned to the main program, each having declared a
\* variable, a function and a class.
C30_Witness ==
    /\ loading = <<>>
    /\ lastResult # 0
    /\ \A file \in FileKeys :
          \E e \in 1..Len(envs) : NamesOf(file) \subseteq DOMAIN envs[e].vals

=============================================================================
